---- MODULE Spec2Model ----
(***************************************************************************)
(* The routing and propagation engine of telers (dispatcher/router.rs):    *)
(* a tree of routers, each with one observer per update kind and one       *)
(* generic "update" observer.  The build phase registers middlewares,      *)
(* includes sub routers and converts the tree into its service form; the   *)
(* serve phase propagates one update through the compiled tree.             *)
(***************************************************************************)
EXTENDS Integers, Sequences, FiniteSets, TLC

\* ------------------------------------------------------------------ bounds
MaxRouters == 3
MaxOuter == 2
MaxHandlers == 2
MaxInner == 2
MaxConfig == 2
MaxRegistrations == 2

\* --------------------------------------------------------------- vocabulary
Routers == 1..MaxRouters

\* UpdateType: the kinds an update is dispatched by (two of the fourteen).
UpdateTypes == {"message", "callback_query"}

\* The observers of a router the engine walks: one per kind plus "update".
ObserverNames == UpdateTypes \cup {"update"}

\* EventReturn
EventReturn == {"Skip", "Cancel", "Finish"}

VARIABLES
    sub_routers,        \* Router::sub_routers: router -> sequence of routers
    inner_middlewares,  \* router -> observer -> sequence of middleware ids
    outer_middlewares,  \* router -> observer -> sequence of middleware ids
    handlers,           \* router -> observer -> number of handler entries
    config,             \* OuterMiddlewaresConfig: observer -> sequence of ids
    next_id,            \* 1 + the number of middlewares registered so far
    phase,              \* "build" until to_service_provider, then "serve"
    root,               \* the router to_service_provider was called on
    stack,              \* the chain of pending async calls of one propagation
    result,             \* what the call made on the root returned
    history,            \* what has been observed during the propagation
    context,            \* the Context instances: instance -> value under the key
    last_trigger,       \* what the trigger did, right after the step that ran it
    emit,               \* the pending or finished emit_startup / emit_shutdown
    resolved,           \* the last resolve_used_update_types call and its result
    suspended,          \* the propagation of another update, not running now
    command_filter,     \* a Command filter as Command::new built it
    filter_context,     \* the Context handed to the filter: key -> value
    filter_call,        \* the last call made on the filter and what it gave
    extraction,         \* the last extraction of a handler argument
    enum_call,          \* the last comparison or conversion of an enum value
    client,             \* Redis::client, a Mutex: the task that holds it, or 0
    server,             \* the Redis server: redis key -> the value it holds
    tasks,              \* task -> the storage call it is in, and how far
    calls               \* the storage calls that returned, in that order

vars == <<sub_routers, inner_middlewares, outer_middlewares, handlers, config,
          next_id, phase, root, stack, result, history, context, last_trigger,
          emit, resolved, suspended, command_filter, filter_context,
          filter_call, extraction, enum_call, client, server, tasks,
          calls>>

\* The state of the host's calls other than propagation.
\* The state of the library parts that work without a router.
filter_vars == <<command_filter, filter_context, filter_call>>

\* The state of the Redis storage and of the calls made on it.
storage_vars == <<client, server, tasks, calls>>

lib_vars == <<filter_vars, extraction, enum_call, storage_vars>>

host_vars == <<emit, resolved, suspended, lib_vars>>

\* The state of one propagation.
run_vars == <<stack, result, history, context, last_trigger>>

tree_vars == <<sub_routers, inner_middlewares, outer_middlewares, handlers,
               config, next_id, phase, root>>

\* ------------------------------------------------------------ tree helpers
RECURSIVE Descendants(_, _)
\* Every router below r in the tree sr (r itself excluded).
Descendants(sr, r) ==
    LET kids == {sr[r][i] : i \in 1..Len(sr[r])}
    IN  kids \cup UNION {Descendants(sr, k) : k \in kids}

Range(s) == {s[i] : i \in 1..Len(s)}

\* ------------------------------------------------------ registration phase
\* The identity of a registered middleware (each registration wraps its value
\* in a new Arc): the i-th one registered directly on chain `chain` ("inner"
\* or "outer") of observer o of router r; router 0 stands for the config.
MiddlewareId(r, o, chain, i) == <<r, o, chain, i>>

\* The identity the next middleware registered on that chain gets.
NewMiddleware(r, o, chain, middlewares) ==
    MiddlewareId(r, o, chain,
                 1 + Cardinality({i \in 1..Len(middlewares) : middlewares[i][1] = r}))

\* Middlewares::register_at_position(index, middleware): the middleware is
\* inserted so that it stands at 0-based position index.
register_at_position(chain, index, middleware) ==
    SubSeq(chain, 1, index) \o <<middleware>> \o SubSeq(chain, index + 1, Len(chain))

\* Middlewares::register(middleware): appended at the end.
register(chain, middleware) == Append(chain, middleware)

RECURSIVE register_middlewares_from(_, _, _)
\* The loop without `index += 1`: every middleware lands at position 0.
register_middlewares_from_first_position(source, target, index) ==
    IF index >= Len(source) THEN target
    ELSE register_middlewares_from(
            source, register_at_position(target, 0, source[index + 1]), index + 1)

\* The register_middlewares! macro from loop turn `index` on:
\*   let mut index = 0;
\*   for middleware in source { target.register_at_position(index, ..); index += 1; }
register_middlewares_from(source, target, index) ==
    IF index >= Len(source) THEN target
    ELSE register_middlewares_from(
            source, register_at_position(target, index, source[index + 1]), index + 1)

register_middlewares(source, target) == register_middlewares_from(source, target, 0)

RECURSIVE register_inner_middlewares(_, _, _, _)
RECURSIVE register_inner_middlewares_each(_, _, _, _, _)
\* Router::register_inner_middlewares(&self, router): the inner middlewares of
\* self go to the first positions of every observer of router, then the same
\* is done, with the same self, for each of router's sub routers.
\* sr is the tree, inner the chains of all routers; the result is the chains
\* afterwards.
register_inner_middlewares(self, router, sr, inner) ==
    LET registered ==
            [inner EXCEPT ![router] =
                [o \in ObserverNames |->
                    register_middlewares(inner[self][o], inner[router][o])]]
    IN  register_inner_middlewares_each(self, sr[router], 1, sr, registered)

\* router.sub_routers.iter_mut().for_each(|sub_router| ...) from element i on.
register_inner_middlewares_each(self, routers, i, sr, inner) ==
    IF i > Len(routers) THEN inner
    ELSE register_inner_middlewares_each(
            self, routers, i + 1, sr,
            register_inner_middlewares(self, routers[i], sr, inner))

\* OuterMiddlewaresConfig::clear
clear(cfg) == [o \in ObserverNames |-> <<>>]

RECURSIVE to_service_provider(_, _, _, _)
RECURSIVE to_service_provider_each(_, _, _, _, _)
\* The conversion without `config.outer_middlewares.clear()`.
to_service_provider_keeping_config(router, cfg, sr, outer) ==
    LET registered ==
            [outer EXCEPT ![router] =
                [o \in ObserverNames |->
                    register_middlewares(cfg[o], outer[router][o])]]
    IN  to_service_provider_each(sr[router], 1, cfg, sr, registered)

\* The conversion registering the config's outer middlewares behind the
\* local ones.
to_service_provider_behind_local(router, cfg, sr, outer) ==
    LET registered ==
            [outer EXCEPT ![router] =
                [o \in ObserverNames |-> outer[router][o] \o cfg[o]]]
    IN  to_service_provider_each(sr[router], 1, clear(cfg), sr, registered)

\* Router::to_service_provider(self, config): the config's outer middlewares
\* go to the first positions of every observer of the router, the config is
\* cleared, and every sub router is converted with a clone of that config.
\* The result is the outer chains of all routers afterwards.
to_service_provider(router, cfg, sr, outer) ==
    LET registered ==
            [outer EXCEPT ![router] =
                [o \in ObserverNames |->
                    register_middlewares(cfg[o], outer[router][o])]]
    IN  to_service_provider_each(sr[router], 1, clear(cfg), sr, registered)

\* self.sub_routers.into_iter().map(|router| router.to_service_provider(..))
to_service_provider_each(routers, i, cfg, sr, outer) ==
    IF i > Len(routers) THEN outer
    ELSE to_service_provider_each(
            routers, i + 1, cfg, sr,
            to_service_provider(routers[i], cfg, sr, outer))

\* The router whose tree r belongs to.
RECURSIVE TreeRoot(_, _)
TreeRoot(sr, r) ==
    IF \E p \in Routers : r \in {sr[p][i] : i \in 1..Len(sr[p])}
    THEN TreeRoot(sr, CHOOSE p \in Routers : r \in {sr[p][i] : i \in 1..Len(sr[p])})
    ELSE r

\* ------------------------------------------------------------- data model
\* The Context instances of the model: the one the dispatcher puts into the
\* Request of the update, and one that is none of its.
Contexts == {"context", "detached"}

\* What a Context holds under the one key the middlewares use.
NoValue == <<>>

\* Context::insert(key, value) and Context::get(key) on instance c.
insert(contexts, c, value) == [contexts EXCEPT ![c] = value]
get(contexts, c) == contexts[c]

\* router::Request: the marks stand for what outer middlewares changed in it;
\* context is its Arc<Context>, the instance every clone of it shares.
Request(marks) == [marks |-> marks, context |-> "context"]

\* Request::clone (derived): the clone holds the same Arcs.
\* A clone that holds the first Context whatever the request held.
clone_into_one_context(request) == [request EXCEPT !.context = "context"]

clone(request) == request

\* telegram::handler::Response; NoResponse where the variant carries none.
NoResponse == [router |-> 0, observer |-> "", entry |-> 0, handler_result |-> ""]

\* PropagateEventResult
Rejected == [kind |-> "Rejected", response |-> NoResponse]
Unhandled == [kind |-> "Unhandled", response |-> NoResponse]
Handled(response) == [kind |-> "Handled", response |-> response]

NoError == [router |-> 0, observer |-> "", stage |-> ""]
NoRequest == Request(<<<<0, "", "", 0>>>>)

\* Result<router::Response, AppErrorKind>
Ok(request, propagate_result) ==
    [tag |-> "Ok", request |-> request, propagate_result |-> propagate_result,
     error |-> NoError]
Err(error) ==
    [tag |-> "Err", request |-> NoRequest, propagate_result |-> Unhandled,
     error |-> error]
Pending ==
    [tag |-> "Pending", request |-> NoRequest, propagate_result |-> Unhandled,
     error |-> NoError]

\* "Err", or the kind of the PropagateEventResult an Ok response carries.
Kind(ret) == IF ret.tag = "Err" THEN "Err" ELSE ret.propagate_result.kind

\* RouterInner::telegram_observer_by_update_type: the observer field a kind
\* selects (observers are keyed by their event name).
telegram_observer_by_update_type(update_type) ==
    CASE update_type = "message" -> "message"
      [] update_type = "callback_query" -> "callback_query"

\* ------------------------------------------------------- observer trigger
\* What one handler entry does with a request, as the trigger sees it:
\*   FilterReject   one of its filters returned false
\*   InnerSkip / InnerCancel / InnerFinish / InnerError
\*                  an inner middleware answered without calling next
\*   Skip / Cancel / Finish / HandlerError
\*                  the inner chain reached the handler, which returned this
InnerOutcomes == {"InnerSkip", "InnerCancel", "InnerFinish", "InnerError"}
HandlerOutcomes == {"Skip", "Cancel", "Finish", "HandlerError"}
EntryOutcomes == {"FilterReject"} \cup InnerOutcomes \cup HandlerOutcomes

\* The outcomes an entry of an observer with that inner chain can have.
PossibleOutcomes(inner) ==
    IF inner = <<>> THEN EntryOutcomes \ InnerOutcomes ELSE EntryOutcomes

\* Result<observer::Response, EventErrorKind> plus the handlers that ran.
TriggerOk(propagate_result, invoked) ==
    [tag |-> "Ok", propagate_result |-> propagate_result, error |-> NoError,
     invoked |-> invoked]
TriggerErr(error, invoked) ==
    [tag |-> "Err", propagate_result |-> Unhandled, error |-> error,
     invoked |-> invoked]

RECURSIVE trigger_from(_, _, _, _, _, _)
\* Observer::trigger from entry i on: entries in registration order; a filter
\* rejecting or a Skip moves to the next entry; Finish or Cancel of the
\* handler ends with Handled; Cancel of an inner middleware stops the
\* propagation (Rejected); an error aborts.  invoked collects the entries
\* whose handler was called.
trigger_from(r, o, n, outcomes, i, invoked) ==
    IF i > n THEN TriggerOk(Unhandled, invoked)
    ELSE LET out == outcomes[i]
             ran == IF out \in HandlerOutcomes THEN Append(invoked, i) ELSE invoked
             response(hr) == [router |-> r, observer |-> o, entry |-> i,
                              handler_result |-> hr]
         IN  CASE out \in {"FilterReject", "InnerSkip", "Skip"} ->
                    trigger_from(r, o, n, outcomes, i + 1, ran)
               [] out \in {"InnerFinish", "Finish"} ->
                    TriggerOk(Handled(response("Finish")), ran)
               [] out = "Cancel" -> TriggerOk(Handled(response("Cancel")), ran)
               [] out = "InnerCancel" -> TriggerOk(Rejected, ran)
               [] out \in {"InnerError", "HandlerError"} ->
                    TriggerErr([router |-> r, observer |-> o, stage |-> out], ran)

trigger(r, o, n, outcomes) == trigger_from(r, o, n, outcomes, 1, <<>>)

\* What the last step's trigger did: the outcomes its entries had, the
\* handlers it invoked, its response, and what those handlers read from the
\* Context of the request.  NoTrigger after any other step.
NotRead == <<"not read">>
NoTrigger ==
    [router |-> 0, observer |-> "", outcomes |-> <<>>, invoked |-> <<>>,
     tag |-> "", propagate_result |-> Unhandled, read |-> NotRead]

\* ------------------------------------------------- frames of pending calls
\* One pending async call of RouterInner.  pc is the await it stands at:
\*   "update"       about to await propagate_update_event        (line 867)
\*   "outer"        about to call outer middleware idx           (872 / 906)
\*   "trigger"      about to await the observer's trigger        (990 / 937)
\*   "sub_routers"  about to await sub router idx                (1013 / 960)
\*   "done"         returning ret to the caller
\* The other fields record what the call received and saw; the code keeps
\* none of them:
\*   arg                the request the call was made with
\*   answers            what each outer middleware called so far returned
\*   observer_response  what the own observer's trigger returned
\*   tried              the sub routers called so far
\*   sub_responses      the kind of what each of them returned
\*   returned           the response of the sub router that ended the loop
\*   below              which observers of other routers ("update" ones,
\*                      "kind" ones) were evaluated while the call was pending
Frame(fn, r, update_type, observer, request) ==
    [fn |-> fn, router |-> r, update_type |-> update_type,
     observer |-> observer, pc |-> "outer", idx |-> 1, request |-> request,
     ret |-> Pending,
     arg |-> request, answers |-> <<>>, called |-> <<>>,
     observer_response |-> "",
     tried |-> <<>>, sub_responses |-> <<>>, returned |-> Pending, below |-> {}]

Chain(f) == outer_middlewares[f.router][f.observer]

Finished(f, ret) == [f EXCEPT !.pc = "done", !.ret = ret]

\* `for middleware in &observer.outer_middlewares`: the loop head.
outer_middlewares_loop(f) ==
    IF f.idx > Len(Chain(f)) THEN [f EXCEPT !.pc = "trigger", !.idx = 1]
    ELSE [f EXCEPT !.pc = "outer"]

\* RouterInner::propagate_update_event, up to its first await.
propagate_update_event(r, request) ==
    outer_middlewares_loop(Frame("propagate_update_event", r, "", "update", request))

\* RouterInner::propagate_event, up to its first await.
propagate_event(r, update_type, request) ==
    [Frame("propagate_event", r, update_type,
           telegram_observer_by_update_type(update_type), request)
        EXCEPT !.pc = "update"]

\* The await of line 867 without its `?`: an error of the update pass is
\* dropped like any response.
update_event_returned_dropping_error(f, ret) ==
    outer_middlewares_loop([f EXCEPT !.idx = 1])

\* The kind pass going on with a request that holds another Context than the
\* one the update pass was given.
update_event_returned_with_other_context(f, ret) ==
    IF ret.tag = "Err" THEN Finished(f, ret)
    ELSE outer_middlewares_loop(
            [f EXCEPT !.idx = 1, !.request.context = "detached"])

\* propagate_event after `self.propagate_update_event(request.clone()).await?`:
\* an error returns, any response is dropped and the kind observer's outer
\* middlewares start on the request propagate_event was called with.
update_event_returned(f, ret) ==
    IF ret.tag = "Err" THEN Finished(f, ret)
    ELSE outer_middlewares_loop([f EXCEPT !.idx = 1])

\* What an outer middleware's call can give: Ok((updated_request, event_return))
\* or Err.
MiddlewareOk(updated_request, event_return) ==
    [tag |-> "Ok", updated_request |-> updated_request,
     event_return |-> event_return]
MiddlewareErr ==
    [tag |-> "Err", updated_request |-> NoRequest, event_return |-> "Finish"]

\* The loop body taking the updated request on Skip as on Finish.
outer_middleware_returned_keeping_skipped(f, answer) ==
    IF answer.tag = "Err"
    THEN Finished(f, Err([router |-> f.router, observer |-> f.observer,
                          stage |-> "outer"]))
    ELSE CASE answer.event_return \in {"Finish", "Skip"} ->
                outer_middlewares_loop(
                    [f EXCEPT !.request = answer.updated_request, !.idx = @ + 1])
           [] answer.event_return = "Cancel" ->
                Finished(f, Ok(f.request, Rejected))

\* The body of the outer middleware loop for the answer of middleware idx.
\* A Skip that leaves the loop at the middleware that returned it.
outer_middleware_returned_staying_on_skip(f, answer) ==
    IF answer.tag = "Err"
    THEN Finished(f, Err([router |-> f.router, observer |-> f.observer,
                          stage |-> "outer"]))
    ELSE CASE answer.event_return = "Finish" ->
                outer_middlewares_loop(
                    [f EXCEPT !.request = answer.updated_request, !.idx = @ + 1])
           [] answer.event_return = "Skip" -> outer_middlewares_loop(f)
           [] answer.event_return = "Cancel" ->
                Finished(f, Ok(f.request, Rejected))

outer_middleware_returned(f, answer) ==
    IF answer.tag = "Err"
    THEN Finished(f, Err([router |-> f.router, observer |-> f.observer,
                          stage |-> "outer"]))
    ELSE CASE answer.event_return = "Finish" ->
                outer_middlewares_loop(
                    [f EXCEPT !.request = answer.updated_request, !.idx = @ + 1])
           [] answer.event_return = "Skip" ->
                outer_middlewares_loop([f EXCEPT !.idx = @ + 1])
           [] answer.event_return = "Cancel" ->
                Finished(f, Ok(f.request, Rejected))

\* The loop head with Rejected, not Unhandled, after the last sub router.
sub_routers_loop_ending_rejected(f) ==
    IF f.idx > Len(sub_routers[f.router])
    THEN Finished(f, Ok(f.request, Rejected))
    ELSE [f EXCEPT !.pc = "sub_routers"]

\* `for router in &self.sub_routers`: the loop head; falling out of the loop
\* returns Unhandled with the router's own request.
sub_routers_loop(f) ==
    IF f.idx > Len(sub_routers[f.router])
    THEN Finished(f, Ok(f.request, Unhandled))
    ELSE [f EXCEPT !.pc = "sub_routers"]

\* The match passing the observer's Rejected on instead of hiding it.
observer_returned_passing_rejected(f, observer_response) ==
    IF observer_response.tag = "Err" THEN Finished(f, Err(observer_response.error))
    ELSE CASE observer_response.propagate_result.kind = "Unhandled" ->
                sub_routers_loop([f EXCEPT !.idx = 1])
           [] observer_response.propagate_result.kind \in {"Handled", "Rejected"} ->
                Finished(f, Ok(f.request, observer_response.propagate_result))

\* The match without the return of its Handled arm: the sub routers are
\* tried although the own observer handled the event.
observer_returned_handled_going_on(f, observer_response) ==
    IF observer_response.tag = "Err" THEN Finished(f, Err(observer_response.error))
    ELSE CASE observer_response.propagate_result.kind \in {"Unhandled", "Handled"} ->
                sub_routers_loop([f EXCEPT !.idx = 1])
           [] observer_response.propagate_result.kind = "Rejected" ->
                Finished(f, Ok(f.request, Unhandled))

\* The match hiding the observer's Handled as it hides its Rejected.
observer_returned_hiding_handled(f, observer_response) ==
    IF observer_response.tag = "Err" THEN Finished(f, Err(observer_response.error))
    ELSE CASE observer_response.propagate_result.kind = "Unhandled" ->
                sub_routers_loop([f EXCEPT !.idx = 1])
           [] observer_response.propagate_result.kind \in {"Handled", "Rejected"} ->
                Finished(f, Ok(f.request, Unhandled))

\* The match returning at once on Unhandled as on Rejected: the sub routers
\* are never tried.
observer_returned_leaving_on_unhandled(f, observer_response) ==
    IF observer_response.tag = "Err" THEN Finished(f, Err(observer_response.error))
    ELSE CASE observer_response.propagate_result.kind = "Handled" ->
                Finished(f, Ok(f.request, observer_response.propagate_result))
           [] observer_response.propagate_result.kind \in {"Unhandled", "Rejected"} ->
                Finished(f, Ok(f.request, Rejected))

\* propagate_event_by_observer / propagate_update_event_by_observer after
\* `observer.trigger(observer_request).await?`.
observer_returned(f, observer_response) ==
    IF observer_response.tag = "Err" THEN Finished(f, Err(observer_response.error))
    ELSE CASE observer_response.propagate_result.kind = "Unhandled" ->
                sub_routers_loop([f EXCEPT !.idx = 1])
           [] observer_response.propagate_result.kind = "Handled" ->
                Finished(f, Ok(f.request, observer_response.propagate_result))
           [] observer_response.propagate_result.kind = "Rejected" ->
                Finished(f, Ok(f.request, Unhandled))

\* The loop body going on to the next sub router on Rejected as on Unhandled.
sub_router_returned_skipping_rejected(f, router_response) ==
    IF router_response.tag = "Err" THEN Finished(f, router_response)
    ELSE CASE router_response.propagate_result.kind \in {"Unhandled", "Rejected"} ->
                sub_routers_loop([f EXCEPT !.idx = @ + 1])
           [] router_response.propagate_result.kind = "Handled" ->
                Finished(f, router_response)

\* The body of the sub router loop for the response of sub router idx.
sub_router_returned(f, router_response) ==
    IF router_response.tag = "Err" THEN Finished(f, router_response)
    ELSE CASE router_response.propagate_result.kind = "Unhandled" ->
                sub_routers_loop([f EXCEPT !.idx = @ + 1])
           [] router_response.propagate_result.kind \in {"Handled", "Rejected"} ->
                Finished(f, router_response)

\* -------------------------------------------------------------- lifecycle
\* One emit_startup / emit_shutdown call: the event, the router it was made
\* on, the position idx of its loop, the routers whose observer it has
\* triggered and those whose observer returned an error (the code keeps
\* neither), and what it returned ("" while pending, "Ok", or "Err" with the
\* router whose observer returned the error).
NoEmit ==
    [event |-> "", router |-> 0, idx |-> 0, triggered |-> <<>>, errors |-> <<>>,
     result |-> "", error |-> 0]

\* once(&self.startup).chain(self.sub_routers.iter().map(|router| &router.startup)):
\* the routers whose observer the loop visits, in its order.
emitted_observers(sr, r) == <<r>> \o sr[r]

\* emit_startup / emit_shutdown up to the first await.
emit_event(event, r) ==
    [event |-> event, router |-> r, idx |-> 1, triggered |-> <<>>,
     errors |-> <<>>, result |-> "", error |-> 0]

\* The loop going on after an observer returned an error.
simple_observer_returned_ignoring_error(e, ok, sr) ==
    IF e.idx = Len(emitted_observers(sr, e.router))
    THEN [e EXCEPT !.idx = @ + 1, !.result = "Ok"]
    ELSE [e EXCEPT !.idx = @ + 1]

\* `startup.trigger(()).await?;` and the loop around it, `Ok(())` after it.
simple_observer_returned(e, ok, sr) ==
    IF ~ok
    THEN [e EXCEPT !.result = "Err",
                   !.error = emitted_observers(sr, e.router)[e.idx]]
    ELSE IF e.idx = Len(emitted_observers(sr, e.router))
         THEN [e EXCEPT !.idx = @ + 1, !.result = "Ok"]
         ELSE [e EXCEPT !.idx = @ + 1]

\* --------------------------------------------------- resolving update types
\* The last resolve call: the router it was made on, whether it was the call
\* with a skip list, the skip list, the Vec it returned, and whether it
\* panicked instead of returning.
NoResolved ==
    [router |-> 0, with_skip |-> FALSE, skip_updates |-> {}, result |-> <<>>,
     panicked |-> FALSE]

Resolved(r, with_skip, skip_updates, vec) ==
    [router |-> r, with_skip |-> with_skip, skip_updates |-> skip_updates,
     result |-> vec, panicked |-> FALSE]

ResolvePanicked(r, with_skip, skip_updates) ==
    [router |-> r, with_skip |-> with_skip, skip_updates |-> skip_updates,
     result |-> <<>>, panicked |-> TRUE]

\* Router::telegram_observers(): the observer of every kind and `update`.
telegram_observers == ObserverNames

\* <&str as TryInto<UpdateType>>::try_into(event_name): the kind of that name,
\* or UpdateTypeError::UnknownUpdateType for a name that is no kind.
try_into(event_name) ==
    IF event_name \in UpdateTypes
    THEN [ok |-> TRUE, update_type |-> event_name]
    ELSE [ok |-> FALSE, update_type |-> event_name]

\* The observers of r that have a handler, each converted to its kind.
own_update_types(h, r) ==
    {try_into(event_name) :
        event_name \in {o \in telegram_observers : h[r][o] > 0}}

\* What a resolve_used_update_types call built: the HashSet, or the panic of
\* expect() on a failed conversion.
Used(used_update_types) == [panicked |-> FALSE, used_update_types |-> used_update_types]
Panic == [panicked |-> TRUE, used_update_types |-> {}]

\* resolve_used_update_types that leaves the sub routers out.
resolve_used_update_types_own_only(sr, h, r) ==
    IF \E converted \in own_update_types(h, r) : ~converted.ok
    THEN Panic
    ELSE Used({converted.update_type : converted \in own_update_types(h, r)})

RECURSIVE resolve_used_update_types(_, _, _)
RECURSIVE resolve_sub_routers(_, _, _, _)
\* Router::resolve_used_update_types up to the final collect: the sub
\* routers' types first, then the router's own.
resolve_used_update_types(sr, h, r) ==
    LET below == resolve_sub_routers(sr, h, sr[r], 1)
        own == own_update_types(h, r)
    IN  IF below.panicked THEN Panic
        ELSE IF \E converted \in own : ~converted.ok THEN Panic
        ELSE Used(below.used_update_types
                    \cup {converted.update_type : converted \in own})

\* self.sub_routers.iter().for_each(...) from the i-th sub router on.
resolve_sub_routers(sr, h, routers, i) ==
    IF i > Len(routers) THEN Used({})
    ELSE LET first == resolve_used_update_types(sr, h, routers[i])
             rest == resolve_sub_routers(sr, h, routers, i + 1)
         IN  IF first.panicked \/ rest.panicked THEN Panic
             ELSE Used(first.used_update_types \cup rest.used_update_types)

\* used_update_types.into_iter().collect(): the Vecs a HashSet can be
\* collected into, its elements once each in any order.
collect(used_update_types) ==
    {vec \in [1..Cardinality(used_update_types) -> used_update_types] :
        Range(vec) = used_update_types}

\* resolve_used_update_types_with_skip that filters nothing.
resolve_used_update_types_with_skip_keeping_all(used, skip_updates) == used

\* Router::resolve_used_update_types_with_skip on the Vec that
\* resolve_used_update_types returned.
resolve_used_update_types_with_skip(used, skip_updates) ==
    SelectSeq(used, LAMBDA update_type : update_type \notin skip_updates)

\* ---------------------------------------------------------------- history
NoHistory ==
    [cancelled |-> FALSE,      \* an outer middleware has returned Cancel
     after_cancel |-> {},      \* what was evaluated after that Cancel
     error |-> NoError,        \* the first error a stage returned
     after_error |-> {},       \* what was evaluated after that error
     propagate_calls |-> [r \in Routers |-> 0],   \* propagate_event calls
     update_calls |-> [r \in Routers |-> 0],      \* propagate_update_event calls
     inserted |-> NoValue]     \* the value a middleware inserted last

\* history after evaluating `what` ("router", "middleware", "trigger",
\* "handler"): it is noted when a Cancel or an error came before it.
Noted(h, what) ==
    [h EXCEPT !.after_cancel =
                  IF h.cancelled THEN @ \cup (what \cap {"handler", "router"})
                  ELSE @,
              !.after_error = IF h.error # NoError THEN @ \cup what ELSE @]

\* The propagation of an update that has not been dispatched yet, its
\* Request holding the Context c.
NoPropagation(c) ==
    [stack |-> <<>>, result |-> Pending, history |-> NoHistory, context |-> c]

\* ------------------------------------------------------------ strings
\* A character that takes two bytes in UTF-8.
TwoBytes == "U+00E9"

\* The characters of texts: a prefix, a letter in both cases, the mention
\* sign, the space and a character of two bytes.
Chars == {"/", "a", "A", "@", " ", TwoBytes}

\* The strings of at most n characters.
Strings(n) == UNION {[1..k -> Chars] : k \in 0..n}

\* char::len_utf8
len_utf8(c) == IF c = TwoBytes THEN 2 ELSE 1

\* str::len: the length in bytes.
RECURSIVE len(_)
len(s) == IF s = <<>> THEN 0 ELSE len_utf8(Head(s)) + len(Tail(s))

\* The byte offset at which the k-th character of s starts.
offset(s, k) == len(SubSeq(s, 1, k - 1))

\* str::is_char_boundary
is_char_boundary(s, index) ==
    \/ index = len(s)
    \/ \E k \in 1..Len(s) : offset(s, k) = index

\* &s[begin..end] when both are character boundaries.
slice(s, begin, end) ==
    SubSeq(s,
           Cardinality({k \in 1..Len(s) : offset(s, k) < begin}) + 1,
           Cardinality({k \in 1..Len(s) : offset(s, k) < end}))

\* str::trim, the space being the only white space of Chars.
RECURSIVE trim_start(_)
trim_start(s) ==
    IF s # <<>> /\ Head(s) = " " THEN trim_start(Tail(s)) ELSE s

RECURSIVE trim_end(_)
trim_end(s) ==
    IF s # <<>> /\ s[Len(s)] = " " THEN trim_end(SubSeq(s, 1, Len(s) - 1)) ELSE s

trim(s) == trim_end(trim_start(s))

\* str::split(separator).collect(): the pieces between the separators, one
\* empty piece for an empty string.
RECURSIVE split(_, _)
split(s, separator) ==
    IF \A i \in 1..Len(s) : s[i] # separator THEN <<s>>
    ELSE LET i == CHOOSE i \in 1..Len(s) :
                     /\ s[i] = separator
                     /\ \A j \in 1..(i - 1) : s[j] # separator
         IN  <<SubSeq(s, 1, i - 1)>> \o split(SubSeq(s, i + 1, Len(s)), separator)

\* str::contains(char)
contains(s, c) == \E i \in 1..Len(s) : s[i] = c

\* str::to_lowercase
to_lowercase(s) == [i \in 1..Len(s) |-> IF s[i] = "A" THEN "a" ELSE s[i]]

\* Option
Some(value) == [is_some |-> TRUE, value |-> value]
None == [is_some |-> FALSE, value |-> <<>>]

\* ----------------------------------------------------- the Command filter
CommandObject(command, prefix, mention, args) ==
    [command |-> command, prefix |-> prefix, mention |-> mention, args |-> args]

NoCommandObject == CommandObject(<<>>, <<>>, None, <<>>)

\* What CommandObject::extract gives: the object, or the panic of a slice
\* index that is out of range or inside a character.
Extracted(object) == [panicked |-> FALSE, object |-> object]
ExtractPanicked == [panicked |-> TRUE, object |-> NoCommandObject]

\* CommandObject::extract
extract(text) ==
    LET pieces == split(trim(text), " ")
        full_command == pieces[1]
        args == Tail(pieces)
    IN  IF ~(1 <= len(full_command) /\ is_char_boundary(full_command, 1))
        THEN ExtractPanicked
        ELSE LET prefix == slice(full_command, 0, 1)
                 command == slice(full_command, 1, len(full_command))
             IN  IF contains(command, "@")
                 THEN LET parts == split(command, "@")
                          mention == parts[2]
                      IN  Extracted(CommandObject(
                             parts[1], prefix,
                             IF mention = <<>> THEN None ELSE Some(mention),
                             args))
                 ELSE Extracted(CommandObject(command, prefix, None, args))

\* PatternType; a Regex is a literal, matched wherever it occurs, and
\* with the (?i) flag in any case.
Text(text) == [kind |-> "Text", text |-> text, flag |-> ""]
Object(command) == [kind |-> "Object", text |-> command, flag |-> ""]
Regex(literal) == [kind |-> "Regex", text |-> literal, flag |-> ""]

\* Regex::new(&format!("(?i){regex}"))
IgnoringCase(regex) == [regex EXCEPT !.flag = "(?i)"]

\* Regex::is_match
is_match(regex, s) ==
    LET literal == IF regex.flag = "(?i)" THEN to_lowercase(regex.text)
                   ELSE regex.text
        haystack == IF regex.flag = "(?i)" THEN to_lowercase(s) ELSE s
    IN  \E i \in 0..(Len(haystack) - Len(literal)) :
            SubSeq(haystack, i + 1, i + Len(literal)) = literal

\* A Command filter; `given` notes the patterns new was called with, which
\* the filter does not keep.
Command(commands, prefix, ignore_case, ignore_mention, given) ==
    [commands |-> commands, prefix |-> prefix, ignore_case |-> ignore_case,
     ignore_mention |-> ignore_mention, given |-> given]

\* Command::new that keeps the case of the patterns.
new_keeping_case(commands, prefix, ignore_case, ignore_mention) ==
    Command([i \in 1..Len(commands) |->
                IF commands[i].kind = "Object" THEN Text(commands[i].text)
                ELSE commands[i]],
            prefix, ignore_case, ignore_mention, commands)

\* Command::new
new(commands, prefix, ignore_case, ignore_mention) ==
    Command(
        IF ignore_case
        THEN [i \in 1..Len(commands) |->
                CASE commands[i].kind = "Text" ->
                        Text(to_lowercase(commands[i].text))
                  [] commands[i].kind = "Object" ->
                        Text(to_lowercase(commands[i].text))
                  [] commands[i].kind = "Regex" -> IgnoringCase(commands[i])]
        ELSE [i \in 1..Len(commands) |->
                IF commands[i].kind = "Object" THEN Text(commands[i].text)
                ELSE commands[i]],
        prefix, ignore_case, ignore_mention, commands)

\* Command::default()
DefaultCommand == Command(<<>>, <<"/">>, FALSE, FALSE, <<>>)

\* Command::validate_prefix
validate_prefix(filter, command) ==
    IF command.prefix = filter.prefix THEN "Ok" ELSE "InvalidPrefix"

\* Whether one pattern accepts the command; the Object arm is unreachable!().
RECURSIVE validate_command_from(_, _, _)
validate_command_from(filter, command, i) ==
    IF i > Len(filter.commands) THEN "InvalidCommand"
    ELSE LET pattern == filter.commands[i]
         IN  CASE pattern.kind = "Text" ->
                    IF command = pattern.text THEN "Ok"
                    ELSE validate_command_from(filter, command, i + 1)
               [] pattern.kind = "Regex" ->
                    IF is_match(pattern, command) THEN "Ok"
                    ELSE validate_command_from(filter, command, i + 1)
               [] pattern.kind = "Object" -> "panic"

\* Command::validate_command
validate_command(filter, command) ==
    validate_command_from(
        filter,
        IF filter.ignore_case THEN to_lowercase(command.command)
        ELSE command.command,
        1)

\* What bot.get_me(None) can give: a session error, or the bot with or
\* without a username.
SessionError == [tag |-> "Err", username |-> None]
Me(username) == [tag |-> "Ok", username |-> username]

\* What a validation gives: its result and the get_me requests it sent.
Validated(returned, get_me) == [returned |-> returned, get_me |-> get_me]

\* Command::validate_mention that hands a session error on as a panic.
validate_mention_unwrapping(filter, command, me) ==
    IF filter.ignore_mention THEN Validated("Ok", 0)
    ELSE IF command.mention.is_some
    THEN IF me.tag = "Err" THEN Validated("panic", 1)
         ELSE IF me.username.is_some
         THEN IF command.mention.value = me.username.value
              THEN Validated("Ok", 1)
              ELSE Validated("InvalidMention", 1)
         ELSE Validated("InvalidMention", 1)
    ELSE Validated("Ok", 0)

\* Command::validate_mention; me is what get_me gives if it is called.
validate_mention(filter, command, me) ==
    IF filter.ignore_mention THEN Validated("Ok", 0)
    ELSE IF command.mention.is_some
    THEN IF me.tag = "Err" THEN Validated("Session", 1)
         ELSE IF me.username.is_some
         THEN IF command.mention.value = me.username.value
              THEN Validated("Ok", 1)
              ELSE Validated("InvalidMention", 1)
         ELSE Validated("InvalidMention", 1)
    ELSE Validated("Ok", 0)

\* Command::parse_command: Ok(command) or the first error.
parse_command(filter, text, me) ==
    LET command == extract(text)
        prefix_validated == validate_prefix(filter, command.object)
        command_validated == validate_command(filter, command.object)
    IN  IF command.panicked THEN Validated("panic", 0)
        ELSE IF prefix_validated # "Ok" THEN Validated(prefix_validated, 0)
        ELSE IF command_validated # "Ok" THEN Validated(command_validated, 0)
        ELSE validate_mention(filter, command.object, me)

\* An Update: whether it has a message, and the message's text or caption.
Update(message, text) == [message |-> message, text |-> text]

\* The keys of the Context handed to a filter.
Keys == {"command", "other"}

\* What check gives: true, false or a panic, the Context after it and the
\* get_me requests it sent.
Checked(returned, ctx, get_me) ==
    [returned |-> returned, context |-> ctx, get_me |-> get_me]

\* check that stores the command object before it validates it.
check_inserting_first(filter, me, update, ctx) ==
    IF ~update.message THEN Checked("false", ctx, 0)
    ELSE IF ~update.text.is_some THEN Checked("false", ctx, 0)
    ELSE LET parsed == parse_command(filter, update.text.value, me)
             stored == insert(ctx, "command", extract(update.text.value).object)
         IN  CASE parsed.returned = "Ok" -> Checked("true", stored, parsed.get_me)
               [] parsed.returned = "panic" -> Checked("panic", ctx, parsed.get_me)
               [] OTHER -> Checked("false", stored, parsed.get_me)

\* <Command as Filter>::check
check(filter, me, update, ctx) ==
    IF ~update.message THEN Checked("false", ctx, 0)
    ELSE IF ~update.text.is_some THEN Checked("false", ctx, 0)
    ELSE LET parsed == parse_command(filter, update.text.value, me)
         IN  CASE parsed.returned = "Ok" ->
                    Checked("true",
                            insert(ctx, "command",
                                   extract(update.text.value).object),
                            parsed.get_me)
               [] parsed.returned = "panic" -> Checked("panic", ctx, parsed.get_me)
               [] OTHER -> Checked("false", ctx, parsed.get_me)

\* No call made on the filter yet. A call is noted with its function, the
\* text or name it was given, what extract gave for it, what the call
\* returned, and the get_me requests it sent.
NoFilterCall ==
    [fn |-> "", message |-> FALSE, text |-> None,
     extracted |-> ExtractPanicked, returned |-> "",
     get_me |-> 0, me |-> SessionError, before |-> <<>>]


\* ------------------------------------------- extracting handler arguments
\* The types with a FromEventAndContext impl (extract/types.rs): those that
\* are converted from the update, and those that are handed over as they are.
PayloadTypes ==
    {"Message", "CallbackQuery", "ChosenInlineResult", "ShippingQuery",
     "PreCheckoutQuery", "PollAnswer", "ChatMemberUpdated", "ChatJoinRequest",
     "InlineQuery", "Poll"}

InfallibleTypes == {"Bot", "Arc<Bot>", "Update", "Arc<Update>", "Arc<Context>"}

\* An update is modelled by the payload types whose field of it is Some;
\* Update::default() is {}.
\* What an extraction comes to: Ok(value), Err(ConvertUpdateToTypeError) or
\* a panic that unwinds out of it.
Converted(value) == [returned |-> "Ok", value |-> value]
ConvertUpdateToTypeError == [returned |-> "Err", value |-> "ConvertUpdateToTypeError"]
Unwound(message) == [returned |-> "panic", value |-> message]

\* impl From<Update> for Poll, update.poll.expect(..): the poll, or a panic
\* with the message of the expect.
from(update) ==
    IF "Poll" \in update THEN Converted("Poll")
    ELSE Unwound("Update isn't a Poll")

\* T::try_from(update) for a payload type with a TryFrom<Update> impl: the
\* payload the update carries, or the conversion error.
try_from(type, update) ==
    IF type \in update THEN Converted(type) ELSE ConvertUpdateToTypeError

\* <T as FromEventAndContext>::extract(bot, update, context).  Poll has no
\* TryFrom<Update> impl of its own: Poll::try_from is the From above, which
\* TryFrom reaches as Ok(update.into()).
from_event_and_context(type, update) ==
    IF type \in InfallibleTypes THEN Converted(type)
    ELSE IF type = "Poll" THEN from(update)
    ELSE try_from(type, update)

\* No extraction made yet.
NoExtraction == [type |-> "", update |-> {}, outcome |-> Converted("")]

\* ------------------------------------------------- the string-named enums
\* Each enum with its as_str: variant -> its text; all() is the DOMAIN.
MenuButtonType ==
    [Commands |-> "commands", WebApp |-> "web_app", Default |-> "default"]

MessageEntityType ==
    [Mention |-> "mention", Hashtag |-> "hashtag", Cashtag |-> "cashtag",
     BotCommand |-> "bot_command", Url |-> "url", Email |-> "email",
     PhoneNumber |-> "phone_number", Bold |-> "bold", Italic |-> "italic",
     Underline |-> "underline", Strikethrough |-> "strikethrough",
     Code |-> "code", Pre |-> "pre", TextLink |-> "text_link",
     TextMention |-> "text_mention", CustomEmoji |-> "custom_emoji"]

StickerFormat ==
    [Static |-> "static", Animated |-> "animated", Video |-> "video"]

InlineQueryResultType ==
    [Article |-> "article", Audio |-> "audio", Contact |-> "contact",
     Document |-> "document", Game |-> "game", Gif |-> "gif",
     Location |-> "location", Mpeg4Gif |-> "mpeg4_gif", Photo |-> "photo",
     Sticker |-> "sticker", Venue |-> "venue", Video |-> "video",
     VideoNote |-> "video_note", Voice |-> "voice"]

\* What the body of a function comes to: it returns a value, or it calls a
\* function (here always with the arguments it was given itself).
Returning(value) == [calls |-> "", value |-> value]
Calling(fn) == [calls |-> fn, value |-> FALSE]

\* An owned text: a String or a Box<str> holding the bytes of the text.
Owned(type, text) == [type |-> type, text |-> text]

\* impl PartialEq<&str> for MenuButtonType: self == other, with self a
\* &MenuButtonType and other a &&str, is the comparison of two references,
\* which compares what they refer to: a MenuButtonType with a &str, that is
\* this eq again.
MenuButtonType_eq(variant, other) == Calling("eq")

\* impl PartialEq<&str> for MessageEntityType: self == other, as above.
MessageEntityType_eq(variant, other) == Calling("eq")

\* impl PartialEq<&str> for StickerFormat: self.as_str() == *other.
StickerFormat_eq(variant, other) == Returning(StickerFormat[variant] = other)

\* impl PartialEq<&str> for InlineQueryResultType: self.as_str() == *other.
InlineQueryResultType_eq(variant, other) ==
    Returning(InlineQueryResultType[variant] = other)

\* impl From<MenuButtonType> for Box<str>: button_type.into() is
\* <MenuButtonType as Into<Box<str>>>::into, which is Box::<str>::from of the
\* value, that is this from again.
MenuButtonType_into_box_str(variant) == Calling("into_box_str")

\* impl From<MessageEntityType> for Box<str>: entity_type.into(), as above.
MessageEntityType_into_box_str(variant) == Calling("into_box_str")

\* impl From<MenuButtonType> for String: button_type.as_str().to_owned().
MenuButtonType_into_string(variant) ==
    Returning(Owned("String", MenuButtonType[variant]))

\* impl From<MessageEntityType> for String: entity_type.as_str().to_owned().
MessageEntityType_into_string(variant) ==
    Returning(Owned("String", MessageEntityType[variant]))

\* The enums that have the conversions, and every value of the four enums.
EnumTypes ==
    [MenuButtonType |-> MenuButtonType, MessageEntityType |-> MessageEntityType,
     StickerFormat |-> StickerFormat,
     InlineQueryResultType |-> InlineQueryResultType]

Convertible == {"MenuButtonType", "MessageEntityType"}

EnumValues ==
    UNION {{[type |-> type, variant |-> variant] :
               variant \in DOMAIN EnumTypes[type]} : type \in DOMAIN EnumTypes}

\* The texts a value is compared with: the text of every value, the name of
\* a variant and the empty text.
Texts ==
    {EnumTypes[v.type][v.variant] : v \in EnumValues} \cup {"", "Commands"}

\* The body that a call of the function with the value runs.
Body(fn, v, other) ==
    CASE fn = "eq" /\ v.type = "MenuButtonType" ->
            MenuButtonType_eq(v.variant, other)
      [] fn = "eq" /\ v.type = "MessageEntityType" ->
            MessageEntityType_eq(v.variant, other)
      [] fn = "eq" /\ v.type = "StickerFormat" ->
            StickerFormat_eq(v.variant, other)
      [] fn = "eq" /\ v.type = "InlineQueryResultType" ->
            InlineQueryResultType_eq(v.variant, other)
      [] fn = "into_box_str" /\ v.type = "MenuButtonType" ->
            MenuButtonType_into_box_str(v.variant)
      [] fn = "into_box_str" /\ v.type = "MessageEntityType" ->
            MessageEntityType_into_box_str(v.variant)
      [] fn = "into_string" /\ v.type = "MenuButtonType" ->
            MenuButtonType_into_string(v.variant)
      [] fn = "into_string" /\ v.type = "MessageEntityType" ->
            MessageEntityType_into_string(v.variant)

\* The frames the stack of the thread has room for.
MaxFrames == 3

\* No comparison or conversion made yet. pc: "" (none), "called", "returned"
\* or "overflowed" (the thread has overflowed its stack, the process aborts).
NoEnumCall ==
    [fn |-> "", value |-> [type |-> "", variant |-> ""], other |-> "",
     frames |-> 0, pc |-> "", returned |-> FALSE]

\* ---------------------------------------------------- the Redis FSM storage
\* The chats that have a storage key and the tasks that call the storage.
MaxChats == 1
MaxTasks == 2

Tasks == 1..MaxTasks

\* The state names, value keys and values handed to the storage.
StateNames == {"a", "b"}
ValueKeys == {"x", "y"}
Values == {1, 2}

\* StorageKey of one chat.
StorageKey(chat_id) ==
    [bot_id |-> 1, chat_id |-> chat_id, user_id |-> 1, destiny |-> "default"]

StorageKeys == {StorageKey(chat_id) : chat_id \in 1..MaxChats}

\* Part::as_str
as_str(part) == IF part = "States" THEN "states" ELSE "data"

\* DefaultKeyBuilder::build of the default key builder (prefix "fsm", with
\* destiny and bot id): the parts that are joined by the separator.
build(key, part) ==
    <<"fsm", key.destiny, key.bot_id, key.chat_id, key.user_id, as_str(part)>>

\* What the server holds under a redis key: the elements of its list and
\* its string; neither when the key does not exist (a list that lost its
\* last element does not exist).
Nil == [list |-> <<>>, string |-> None]

\* An index of a redis command (from 0, negative ones from the end) as a
\* position of the sequence.
Position(items, index) ==
    IF index < 0 THEN Len(items) + index + 1 ELSE index + 1

\* The commands the storage sends, as the server executes them.
RPUSH(db, redis_key, element) ==
    [db EXCEPT ![redis_key].list = Append(@, element)]

RPOP(db, redis_key) ==
    LET items == db[redis_key].list
    IN  IF items = <<>> THEN db
        ELSE [db EXCEPT ![redis_key].list = SubSeq(items, 1, Len(items) - 1)]

LINDEX(db, redis_key, index) ==
    LET items == db[redis_key].list
        at == Position(items, index)
    IN  IF at \in 1..Len(items) THEN Some(items[at]) ELSE None

LRANGE(db, redis_key, start, stop) ==
    LET items == db[redis_key].list
        first == IF Position(items, start) < 1 THEN 1 ELSE Position(items, start)
        last == IF Position(items, stop) > Len(items) THEN Len(items)
                ELSE Position(items, stop)
    IN  SubSeq(items, first, last)

DEL(db, redis_key) == [db EXCEPT ![redis_key] = Nil]

GET(db, redis_key) == db[redis_key].string

SET(db, redis_key, text) == [db EXCEPT ![redis_key].string = Some(text)]

\* serde_json::to_value and from_value of a value: a JSON number.
to_value(value) == [number |-> value]
from_value(json) == json.number

\* HashMap::insert; a map is a function from the keys it holds, and <<>>
\* the map that holds none.
insert_into(data, value_key, value) ==
    [k \in DOMAIN data \cup {value_key} |->
        IF k = value_key THEN value ELSE data[k]]

\* serde_json::to_string of a map: the members of the JSON object, one per
\* key, in the order the map iterates, which is any order.
to_string(data) ==
    {[i \in 1..Cardinality(DOMAIN data) |-> <<order[i], data[order[i]]>>] :
        order \in {o \in [1..Cardinality(DOMAIN data) -> DOMAIN data] :
                      \A i, j \in DOMAIN o : o[i] = o[j] => i = j}}

\* serde_json::from_str into a map: the last member of a name wins.
from_str(plain_json) ==
    [k \in {plain_json[i][1] : i \in DOMAIN plain_json} |->
        LET at == CHOOSE i \in DOMAIN plain_json :
                     /\ plain_json[i][1] = k
                     /\ \A j \in DOMAIN plain_json : plain_json[j][1] = k => j <= i
        IN  plain_json[at][2]]

\* What a storage call returns: Ok(value) or Err(Error).
Returned(value) == [ok |-> TRUE, value |-> value]
Failed(message) == [ok |-> FALSE, value |-> message]

\* The command of each method: the server after it and what the method
\* returns when the command is answered.
Answer(db, value) == [db |-> db, returned |-> Returned(value)]

set_state(db, key, state) ==
    Answer(RPUSH(db, build(key, "States"), state), "()")

previous_state(db, key) == Answer(RPOP(db, build(key, "States")), "()")

\* get_state asking for the first element of the list.
get_state_oldest(db, key) == Answer(db, LINDEX(db, build(key, "States"), 0))

get_state(db, key) == Answer(db, LINDEX(db, build(key, "States"), -1))

get_states(db, key) == Answer(db, LRANGE(db, build(key, "States"), 0, -1))

remove_states(db, key) == Answer(DEL(db, build(key, "States")), "()")

set_data(db, key, plain_json) ==
    Answer(SET(db, build(key, "Data"), plain_json), "()")

get_data(db, key) ==
    LET plain_json == GET(db, build(key, "Data"))
    IN  IF plain_json.is_some
        THEN LET data == from_str(plain_json.value)
             IN  Answer(db, [k \in DOMAIN data |-> from_value(data[k])])
        ELSE Answer(db, <<>>)

get_value(db, key, value_key) ==
    LET plain_json == GET(db, build(key, "Data"))
    IN  IF plain_json.is_some
        THEN LET data == from_str(plain_json.value)
             IN  IF value_key \in DOMAIN data
                 THEN Answer(db, Some(from_value(data[value_key])))
                 ELSE Answer(db, None)
        ELSE Answer(db, None)

remove_data(db, key) == Answer(DEL(db, build(key, "Data")), "()")

\* set_value writing the one value and nothing of what it read.
set_value_alone(plain_json, value_key, value) ==
    insert_into(<<>>, value_key, to_value(value))

\* set_value after its GET was answered with plain_json: the data it goes
\* on to write.
set_value(plain_json, value_key, value) ==
    LET data == IF plain_json.is_some THEN from_str(plain_json.value)
                ELSE <<>>
    IN  insert_into(data, value_key, to_value(value))

\* The arguments of a call of each method.
Arguments(fn) ==
    CASE fn = "set_state" -> {<<state>> : state \in StateNames}
      [] fn = "set_data" -> {<<data>> : data \in UNION {[keys -> Values] : keys \in SUBSET ValueKeys}}
      [] fn = "set_value" -> {<<k, v>> : k \in ValueKeys, v \in Values}
      [] fn = "get_value" -> {<<k>> : k \in ValueKeys}
      [] OTHER -> {<<>>}

\* A task that is in no call, and the call a task is in: its arguments,
\* the await it is at and the text it holds.
NoCall ==
    [fn |-> "", key |-> StorageKey(1), arg |-> <<>>, pc |-> "idle",
     plain_json |-> None]

StorageIdle ==
    /\ client = 0
    /\ server = [redis_key \in {build(key, part) : key \in StorageKeys,
                                    part \in {"States", "Data"}} |-> Nil]
    /\ tasks = [task \in Tasks |-> NoCall]
    /\ calls = <<>>

LibIdle ==
    /\ command_filter = DefaultCommand
    /\ filter_context = [key \in Keys |-> NoValue]
    /\ filter_call = NoFilterCall
    /\ extraction = NoExtraction
    /\ enum_call = NoEnumCall
    /\ StorageIdle

\* ------------------------------------------------------- compiled trees
RECURSIVE SortedSeq(_)
SortedSeq(S) ==
    IF S = {} THEN <<>>
    ELSE LET m == CHOOSE x \in S : \A y \in S : x <= y
         IN  <<m>> \o SortedSeq(S \ {m})

Ids(r, o, chain, n) == [i \in 1..n |-> MiddlewareId(r, o, chain, i)]

\* The trees a served application can hold: n routers, router 1 the root,
\* every other router included into an earlier one; a router either has
\* registered nothing or, on each of its observers, MaxOuter outer
\* middlewares, MaxInner inner middlewares and MaxHandlers handlers.
InitServe ==
    \E n \in 1..MaxRouters :
    \E parent \in [2..n -> 1..n] :
    \E registered \in SUBSET (1..n) :
        /\ \A c \in 2..n : parent[c] < c
        /\ sub_routers =
              [r \in Routers |-> SortedSeq({c \in 2..n : parent[c] = r})]
        /\ outer_middlewares =
              [r \in Routers |-> [o \in ObserverNames |->
                  IF r \in registered THEN Ids(r, o, "outer", MaxOuter) ELSE <<>>]]
        /\ inner_middlewares =
              [r \in Routers |-> [o \in ObserverNames |->
                  IF r \in registered THEN Ids(r, o, "inner", MaxInner) ELSE <<>>]]
        /\ handlers =
              [r \in Routers |-> [o \in ObserverNames |->
                  IF r \in registered THEN MaxHandlers ELSE 0]]
        /\ config = [o \in ObserverNames |-> <<>>]
        /\ next_id = 0
        /\ phase = "serve"
        /\ root = 1
        /\ stack = <<>>
        /\ result = Pending
        /\ history = NoHistory
        /\ context = [c \in Contexts |-> NoValue]
        /\ last_trigger = NoTrigger
        /\ emit = NoEmit
        /\ resolved = NoResolved
    /\ emit = NoEmit
    /\ resolved = NoResolved
    /\ suspended = NoPropagation("detached")
    /\ LibIdle

\* ------------------------------------------------------------ propagation
Top == stack[Len(stack)]
Replace(f) == [stack EXCEPT ![Len(stack)] = f]

\* The stack with its top frame replaced by f, every pending call of another
\* router noting that an observer of f's router has been evaluated.
Evaluated(f) ==
    [i \in 1..Len(stack) |->
        IF i = Len(stack) THEN f
        ELSE IF stack[i].router = f.router THEN stack[i]
        ELSE [stack[i] EXCEPT !.below =
                @ \cup {IF f.observer = "update" THEN "update" ELSE "kind"}]]

\* The dispatcher calls propagate_event on the root for one inbound update.
Dispatch(update_type) ==
    /\ phase = "serve"
    /\ stack = <<>>
    /\ result = Pending
    /\ history.propagate_calls[root] = 0
    /\ stack' = <<propagate_event(root, update_type, Request(<<>>))>>
    /\ history' = [history EXCEPT !.propagate_calls[root] = @ + 1]
    /\ last_trigger' = NoTrigger
    /\ UNCHANGED <<tree_vars, host_vars, result, context>>

\* propagate_event awaits self.propagate_update_event(request.clone()).
CallPropagateUpdateEvent ==
    /\ stack # <<>>
    /\ Top.pc = "update"
    /\ stack' = Append(stack,
                       propagate_update_event(Top.router, clone(Top.request)))
    /\ history' = [history EXCEPT !.update_calls[Top.router] = @ + 1]
    /\ last_trigger' = NoTrigger
    /\ UNCHANGED <<tree_vars, host_vars, result, context>>

\* One turn of the outer middleware loop: middleware.call(request.clone()).
\* With insertions = BOOLEAN a middleware of an update observer may insert a
\* value of its own into the Context of the request it is called with,
\* whatever it returns; with insertions = {FALSE} no middleware touches the
\* Context.
OuterMiddlewareCall(insertions) ==
    /\ stack # <<>>
    /\ Top.pc = "outer"
    /\ LET f == Top
           middleware == Chain(f)[f.idx]
           request == clone(f.request)
           updated_request == [request EXCEPT !.marks = Append(@, middleware)]
       IN  \E answer \in {MiddlewareOk(updated_request, e) : e \in EventReturn}
                           \cup {MiddlewareErr},
              inserts \in IF f.observer = "update" THEN insertions ELSE {FALSE} :
             LET g == outer_middleware_returned(f, answer)
                 cancel == answer.tag = "Ok" /\ answer.event_return = "Cancel"
                 h == Noted(history, {"middleware"})
             IN  /\ stack' = Evaluated(
                       [g EXCEPT !.answers =
                           Append(@, IF answer.tag = "Err" THEN "Err"
                                     ELSE answer.event_return),
                                 !.called = Append(@, middleware)])
                 /\ history' =
                       [h EXCEPT
                          !.cancelled = @ \/ cancel,
                          !.error = IF @ = NoError /\ answer.tag = "Err"
                                    THEN g.ret.error ELSE @,
                          !.inserted = IF inserts THEN middleware ELSE @]
                 /\ context' =
                       IF inserts THEN insert(context, request.context, middleware)
                       ELSE context
    /\ last_trigger' = NoTrigger
    /\ UNCHANGED <<tree_vars, host_vars, result>>

CallOuterMiddleware == OuterMiddlewareCall({FALSE})

CallInsertingOuterMiddleware == OuterMiddlewareCall(BOOLEAN)

\* propagate_event_by_observer / propagate_update_event_by_observer: the
\* observer's trigger, then the match on its response.  With recorded = TRUE
\* the step leaves in last_trigger what the trigger did.
ObserverTrigger(recorded) ==
    /\ stack # <<>>
    /\ Top.pc = "trigger"
    /\ LET f == Top
           n == handlers[f.router][f.observer]
           inner == inner_middlewares[f.router][f.observer]
       IN  \E outcomes \in [1..n -> PossibleOutcomes(inner)] :
             LET observer_response == trigger(f.router, f.observer, n, outcomes)
                 g == observer_returned(f, observer_response)
                 h == Noted(history,
                            {"trigger"} \cup
                            IF observer_response.invoked # <<>>
                            THEN {"handler"} ELSE {})
             IN  /\ stack' = Evaluated(
                       [g EXCEPT !.observer_response =
                           IF observer_response.tag = "Err" THEN "Err"
                           ELSE observer_response.propagate_result.kind])
                 /\ history' =
                       [h EXCEPT
                          !.error = IF @ = NoError /\ observer_response.tag = "Err"
                                    THEN observer_response.error ELSE @]
                 /\ last_trigger' =
                       IF recorded
                       THEN [router |-> f.router, observer |-> f.observer,
                             outcomes |-> outcomes,
                             invoked |-> observer_response.invoked,
                             tag |-> observer_response.tag,
                             propagate_result |->
                                 observer_response.propagate_result,
                             read |->
                                 IF observer_response.invoked = <<>> THEN NotRead
                                 ELSE get(context, clone(f.request).context)]
                       ELSE NoTrigger
    /\ UNCHANGED <<tree_vars, host_vars, result, context>>

TriggerObserver == ObserverTrigger(FALSE)

TriggerRecordedObserver == ObserverTrigger(TRUE)

\* One turn of the sub router loop: the recursive call on sub router idx.
CallSubRouter ==
    /\ stack # <<>>
    /\ Top.pc = "sub_routers"
    /\ LET f == Top
           router == sub_routers[f.router][f.idx]
           h == Noted(history, {"router"})
       IN  /\ stack' = Append(
                 Replace([f EXCEPT !.tried = Append(@, router)]),
                 IF f.fn = "propagate_event"
                 THEN propagate_event(router, f.update_type, clone(f.request))
                 ELSE propagate_update_event(router, clone(f.request)))
           /\ history' =
                 IF f.fn = "propagate_event"
                 THEN [h EXCEPT !.propagate_calls[router] = @ + 1]
                 ELSE [h EXCEPT !.update_calls[router] = @ + 1]
    /\ last_trigger' = NoTrigger
    /\ UNCHANGED <<tree_vars, host_vars, result, context>>

\* A call returns: its caller goes on from the await it stood at; the call
\* made on the root hands its result to the dispatcher.
Return ==
    /\ stack # <<>>
    /\ Top.pc = "done"
    /\ IF Len(stack) = 1
       THEN /\ result' = Top.ret
            /\ stack' = <<>>
       ELSE LET ret == Top.ret
                caller == stack[Len(stack) - 1]
                resumed ==
                    IF caller.pc = "update"
                    THEN update_event_returned(caller, ret)
                    ELSE [sub_router_returned(caller, ret)
                            EXCEPT !.sub_responses = Append(@, Kind(ret)),
                                   !.returned =
                                      IF Kind(ret) \in {"Handled", "Rejected"}
                                      THEN ret ELSE @]
            IN  /\ stack' = Append(SubSeq(stack, 1, Len(stack) - 2), resumed)
                /\ UNCHANGED result
    /\ last_trigger' = NoTrigger
    /\ UNCHANGED <<tree_vars, host_vars, history, context>>

\* --------------------------------------------------------- building a tree
\* Router::new for every router, an empty OuterMiddlewaresConfigBuilder.
Unbuilt ==
    /\ sub_routers = [r \in Routers |-> <<>>]
    /\ inner_middlewares = [r \in Routers |-> [o \in ObserverNames |-> <<>>]]
    /\ outer_middlewares = [r \in Routers |-> [o \in ObserverNames |-> <<>>]]
    /\ handlers = [r \in Routers |-> [o \in ObserverNames |-> 0]]
    /\ config = [o \in ObserverNames |-> <<>>]
    /\ next_id = 1
    /\ phase = "build"
    /\ root = 0
    /\ stack = <<>>
    /\ result = Pending
    /\ history = NoHistory
    /\ context = [c \in Contexts |-> NoValue]
    /\ last_trigger = NoTrigger
    /\ emit = NoEmit
    /\ resolved = NoResolved
    /\ suspended = NoPropagation("detached")

InitBuild == Unbuilt /\ LibIdle

\* A registration that also reaches the routers already included below r.
RegisterInnerMiddlewareRetroactive(r, o) ==
    /\ phase = "build"
    /\ next_id <= MaxRegistrations
    /\ inner_middlewares' =
          [d \in Routers |->
              IF d = r \/ d \in Descendants(sub_routers, r)
              THEN [inner_middlewares[d] EXCEPT ![o] =
                      register(@, NewMiddleware(r, o, "inner", inner_middlewares[r][o]))]
              ELSE inner_middlewares[d]]
    /\ next_id' = next_id + 1
    /\ UNCHANGED <<sub_routers, outer_middlewares, handlers, config, phase, root,
                   run_vars, host_vars>>

\* router.<observer>.inner_middlewares.register(middleware)
RegisterInnerMiddleware(r, o) ==
    /\ phase = "build"
    /\ next_id <= MaxRegistrations
    /\ inner_middlewares' =
          [inner_middlewares EXCEPT ![r][o] =
              register(@, NewMiddleware(r, o, "inner", @))]
    /\ next_id' = next_id + 1
    /\ UNCHANGED <<sub_routers, outer_middlewares, handlers, config, phase, root,
                   run_vars, host_vars>>

\* router.<observer>.outer_middlewares.register(middleware)
RegisterOuterMiddleware(r, o) ==
    /\ phase = "build"
    /\ next_id <= MaxRegistrations
    /\ outer_middlewares' =
          [outer_middlewares EXCEPT ![r][o] =
              register(@, NewMiddleware(r, o, "outer", @))]
    /\ next_id' = next_id + 1
    /\ UNCHANGED <<sub_routers, inner_middlewares, handlers, config, phase, root,
                   run_vars, host_vars>>

\* OuterMiddlewaresConfigBuilder::<observer>(val): the chain plus Arc::new(val).
ConfigOuterMiddleware(o) ==
    /\ phase = "build"
    /\ next_id <= MaxRegistrations
    /\ Len(config[o]) < MaxConfig
    /\ config' = [config EXCEPT ![o] = Append(@, NewMiddleware(0, o, "outer", @))]
    /\ next_id' = next_id + 1
    /\ UNCHANGED <<sub_routers, inner_middlewares, outer_middlewares, handlers,
                   phase, root, run_vars, host_vars>>

\* include_router that registers the outer middlewares like the inner ones.
IncludeRouterCopyingOuterMiddlewares(self, router) ==
    /\ phase = "build"
    /\ TreeRoot(sub_routers, router) = router
    /\ TreeRoot(sub_routers, self) # router
    /\ inner_middlewares' =
          register_inner_middlewares(self, router, sub_routers, inner_middlewares)
    /\ outer_middlewares' =
          register_inner_middlewares(self, router, sub_routers, outer_middlewares)
    /\ sub_routers' = [sub_routers EXCEPT ![self] = Append(@, router)]
    /\ UNCHANGED <<handlers, config, next_id, phase, root, run_vars, host_vars>>

\* Router::include_router(&mut self, router): router is a tree of its own,
\* moved into self.
IncludeRouter(self, router) ==
    /\ phase = "build"
    /\ TreeRoot(sub_routers, router) = router
    /\ TreeRoot(sub_routers, self) # router
    /\ inner_middlewares' =
          register_inner_middlewares(self, router, sub_routers, inner_middlewares)
    /\ sub_routers' = [sub_routers EXCEPT ![self] = Append(@, router)]
    /\ UNCHANGED <<outer_middlewares, handlers, config, next_id, phase, root,
                   run_vars, host_vars>>

\* Router::to_service_provider(self, config) on a tree's root.
ToServiceProvider(router) ==
    /\ phase = "build"
    /\ TreeRoot(sub_routers, router) = router
    /\ outer_middlewares' =
          to_service_provider(router, config, sub_routers, outer_middlewares)
    /\ phase' = "serve"
    /\ root' = router
    /\ UNCHANGED <<sub_routers, inner_middlewares, handlers, config, next_id,
                   run_vars, host_vars>>

NextBuild ==
    \/ \E r \in Routers, o \in ObserverNames : RegisterInnerMiddleware(r, o)
    \/ \E r \in Routers, o \in ObserverNames : RegisterOuterMiddleware(r, o)
    \/ \E o \in ObserverNames : ConfigOuterMiddleware(o)
    \/ \E self, router \in Routers : IncludeRouter(self, router)
    \/ \E router \in Routers : ToServiceProvider(router)

SpecBuild == InitBuild /\ [][NextBuild]_vars

Next ==
    \/ \E update_type \in UpdateTypes : Dispatch(update_type)
    \/ CallPropagateUpdateEvent
    \/ CallOuterMiddleware
    \/ TriggerObserver
    \/ CallSubRouter
    \/ Return

Spec == InitServe /\ [][Next]_vars

\* ------------------------------------------------ resolving update types
\* router.<observer>.register(handler)
RegisterHandler(r, o) ==
    /\ phase = "build"
    /\ next_id <= MaxRegistrations
    /\ handlers[r][o] < MaxHandlers
    /\ handlers' = [handlers EXCEPT ![r][o] = @ + 1]
    /\ next_id' = next_id + 1
    /\ UNCHANGED <<sub_routers, inner_middlewares, outer_middlewares, config,
                   phase, root, run_vars, host_vars>>

\* The host calls router.resolve_used_update_types().
ResolveUsedUpdateTypes(r) ==
    /\ phase = "build"
    /\ LET call == resolve_used_update_types(sub_routers, handlers, r)
       IN  IF call.panicked
           THEN resolved' = ResolvePanicked(r, FALSE, {})
           ELSE \E vec \in collect(call.used_update_types) :
                   resolved' = Resolved(r, FALSE, {}, vec)
    /\ UNCHANGED <<tree_vars, run_vars, emit, suspended, lib_vars>>

\* The host calls router.resolve_used_update_types_with_skip(skip_updates).
ResolveUsedUpdateTypesWithSkip(r, skip_updates) ==
    /\ phase = "build"
    /\ LET call == resolve_used_update_types(sub_routers, handlers, r)
       IN  IF call.panicked
           THEN resolved' = ResolvePanicked(r, TRUE, skip_updates)
           ELSE \E vec \in collect(call.used_update_types) :
                   resolved' =
                      Resolved(r, TRUE, skip_updates,
                               resolve_used_update_types_with_skip(vec, skip_updates))
    /\ UNCHANGED <<tree_vars, run_vars, emit, suspended, lib_vars>>

NextResolve ==
    \/ \E r \in Routers, o \in ObserverNames : RegisterHandler(r, o)
    \/ \E self, router \in Routers : IncludeRouter(self, router)
    \/ \E r \in Routers : ResolveUsedUpdateTypes(r)
    \/ \E r \in Routers, skip_updates \in SUBSET UpdateTypes :
          ResolveUsedUpdateTypesWithSkip(r, skip_updates)

SpecResolve == InitBuild /\ [][NextResolve]_vars

\* ------------------------------------------------- the lifecycle emissions
\* The host calls emit_startup on the root.
EmitStartup ==
    /\ phase = "serve"
    /\ emit = NoEmit
    /\ emit' = emit_event("startup", root)
    /\ UNCHANGED <<tree_vars, run_vars, resolved, suspended, lib_vars>>

\* The host calls emit_shutdown on the root.
EmitShutdown ==
    /\ phase = "serve"
    /\ emit = NoEmit
    /\ emit' = emit_event("shutdown", root)
    /\ UNCHANGED <<tree_vars, run_vars, resolved, suspended, lib_vars>>

\* One turn of the loop: the observer's trigger returns Ok(()) or an error.
TriggerSimpleObserver ==
    /\ emit # NoEmit
    /\ emit.result = ""
    /\ emit.idx \in 1..Len(emitted_observers(sub_routers, emit.router))
    /\ LET observer == emitted_observers(sub_routers, emit.router)[emit.idx]
       IN  \E ok \in BOOLEAN :
             emit' = [simple_observer_returned(emit, ok, sub_routers)
                        EXCEPT !.triggered = Append(@, observer),
                               !.errors = IF ok THEN @ ELSE Append(@, observer)]
    /\ UNCHANGED <<tree_vars, run_vars, resolved, suspended, lib_vars>>

NextLifecycle ==
    \/ EmitStartup
    \/ EmitShutdown
    \/ TriggerSimpleObserver

SpecLifecycle == InitServe /\ [][NextLifecycle]_vars

\* ------------------------------------- one propagation, observed in detail
\* Trees of the root and at most one sub router.
InitDetail ==
    /\ InitServe
    /\ Len(sub_routers[root]) <= 1
    /\ \A r \in Range(sub_routers[root]) : sub_routers[r] = <<>>

\* ------------------------------------------- two updates at the same time
\* The Context of the update whose propagation is running.
Running == CHOOSE c \in Contexts : c # suspended.context

\* The dispatcher calls propagate_event on the root for an inbound update
\* with a Request that holds the update's own Context.
DispatchConcurrent(update_type) ==
    /\ phase = "serve"
    /\ stack = <<>>
    /\ result = Pending
    /\ history.propagate_calls[root] = 0
    /\ stack' = <<propagate_event(root, update_type,
                                  [Request(<<>>) EXCEPT !.context = Running])>>
    /\ history' = [history EXCEPT !.propagate_calls[root] = @ + 1]
    /\ last_trigger' = NoTrigger
    /\ UNCHANGED <<tree_vars, host_vars, result, context>>

\* The executor leaves the running propagation at an await and goes on with
\* the other one.
Switch ==
    /\ phase = "serve"
    /\ stack # <<>> \/ suspended.stack # <<>>
    /\ suspended' = [stack |-> stack, result |-> result, history |-> history,
                     context |-> Running]
    /\ stack' = suspended.stack
    /\ result' = suspended.result
    /\ history' = suspended.history
    /\ last_trigger' = NoTrigger
    /\ UNCHANGED <<tree_vars, emit, resolved, context, lib_vars>>

\* A root with one outer middleware, one inner middleware and one handler
\* on every observer, and one sub router that has registered nothing.
InitConcurrent ==
    /\ sub_routers = [r \in Routers |-> IF r = 1 THEN <<2>> ELSE <<>>]
    /\ outer_middlewares =
          [r \in Routers |-> [o \in ObserverNames |->
              IF r = 1 THEN Ids(r, o, "outer", 1) ELSE <<>>]]
    /\ inner_middlewares =
          [r \in Routers |-> [o \in ObserverNames |->
              IF r = 1 THEN Ids(r, o, "inner", 1) ELSE <<>>]]
    /\ handlers =
          [r \in Routers |-> [o \in ObserverNames |->
              IF r = 1 THEN 1 ELSE 0]]
    /\ config = [o \in ObserverNames |-> <<>>]
    /\ next_id = 0
    /\ phase = "serve"
    /\ root = 1
    /\ stack = <<>>
    /\ result = Pending
    /\ history = NoHistory
    /\ context = [c \in Contexts |-> NoValue]
    /\ last_trigger = NoTrigger
    /\ emit = NoEmit
    /\ resolved = NoResolved
    /\ suspended = NoPropagation("detached")
    /\ LibIdle

NextConcurrent ==
    \/ \E update_type \in UpdateTypes : DispatchConcurrent(update_type)
    \/ CallPropagateUpdateEvent
    \/ CallInsertingOuterMiddleware
    \/ TriggerObserver
    \/ CallSubRouter
    \/ Return
    \/ Switch

SpecConcurrent == InitConcurrent /\ [][NextConcurrent]_vars

\* --------------------------------------------- extracting a command object
\* The lengths of the texts handed to extract.
MaxText == 5

\* CommandObject::extract(text) is called.
Extract(text) ==
    /\ filter_call = NoFilterCall
    /\ filter_call' =
          [NoFilterCall EXCEPT !.fn = "extract", !.text = Some(text),
                               !.extracted = extract(text),
                               !.returned = IF extract(text).panicked
                                            THEN "panic" ELSE "CommandObject"]
    /\ UNCHANGED <<tree_vars, run_vars, emit, resolved, suspended,
                   command_filter, filter_context, extraction, enum_call,
                   storage_vars>>

InitLibrary == Unbuilt /\ LibIdle

NextExtract == \E text \in Strings(MaxText) : Extract(text)

SpecExtract == InitLibrary /\ [][NextExtract]_vars

\* -------------------------------------------------- checking with a filter
\* The patterns a filter is built with and their number, the lengths of the
\* texts of the updates and of the command names handed to validate_command.
MaxCommands == 2
MaxCheckText == 4
MaxName == 2

PatternTexts == {<<"a">>, <<"A", "a">>}
Patterns ==
    {Text(t) : t \in PatternTexts} \cup {Object(t) : t \in PatternTexts}
        \cup {Regex(t) : t \in PatternTexts}

Usernames == {<<"a">>, <<"A">>}
Mes == {SessionError, Me(None)} \cup {Me(Some(u)) : u \in Usernames}

Updates ==
    {Update(FALSE, None), Update(TRUE, None)}
        \cup {Update(TRUE, Some(t)) : t \in Strings(MaxCheckText)}

\* A filter built by Command::new and a Context that holds a value under
\* another key and none under "command".
InitCommand ==
    /\ Unbuilt
    /\ \E k \in 0..MaxCommands :
       \E commands \in [1..k -> Patterns] :
       \E ignore_case \in BOOLEAN, ignore_mention \in BOOLEAN :
          command_filter = new(commands, <<"/">>, ignore_case, ignore_mention)
    /\ filter_context =
          [key \in Keys |-> IF key = "command" THEN NoValue ELSE [older |-> key]]
    /\ filter_call = NoFilterCall
    /\ extraction = NoExtraction
    /\ enum_call = NoEnumCall
    /\ StorageIdle

\* filter.validate_command(&command) is called with a command object.
ValidateCommand(name) ==
    /\ filter_call = NoFilterCall
    /\ filter_call' =
          [NoFilterCall EXCEPT
             !.fn = "validate_command", !.text = Some(name),
             !.returned =
                validate_command(command_filter,
                                 CommandObject(name, <<"/">>, None, <<>>))]
    /\ UNCHANGED <<tree_vars, run_vars, emit, resolved, suspended,
                   command_filter, filter_context, extraction, enum_call,
                   storage_vars>>

\* The observer calls filter.check(bot, update, context); me is what the
\* bot's session answers if the call sends get_me.
Check(update) ==
    /\ filter_call = NoFilterCall
    /\ \E me \in IF check(command_filter, SessionError, update,
                          filter_context).get_me > 0
                 THEN Mes ELSE {SessionError} :
          LET checked == check(command_filter, me, update, filter_context)
          IN  /\ filter_context' = checked.context
              /\ filter_call' =
                    [NoFilterCall EXCEPT
                       !.fn = "check", !.message = update.message,
                       !.text = update.text,
                       !.returned = checked.returned,
                       !.get_me = checked.get_me,
                       !.me = me,
                       !.before = filter_context]
    /\ UNCHANGED <<tree_vars, run_vars, emit, resolved, suspended,
                   command_filter, extraction, enum_call, storage_vars>>

NextCommand ==
    \/ \E name \in Strings(MaxName) : ValidateCommand(name)
    \/ \E update \in Updates : Check(update)

SpecCommand == InitCommand /\ [][NextCommand]_vars

\* ------------------------------------------ extracting a handler argument
\* The payloads one update carries at most.
MaxPayloads == 1

\* A handler that takes an argument of the type is called with the update:
\* T::extract(bot, update, context).
ExtractArgument(type, update) ==
    /\ extraction = NoExtraction
    /\ extraction' =
          [type |-> type, update |-> update,
           outcome |-> from_event_and_context(type, update)]
    /\ UNCHANGED <<tree_vars, run_vars, emit, resolved, suspended,
                   filter_vars, enum_call, storage_vars>>

NextArguments ==
    \E type \in PayloadTypes \cup InfallibleTypes :
    \E update \in {u \in SUBSET PayloadTypes : Cardinality(u) <= MaxPayloads} :
        ExtractArgument(type, update)

SpecArguments == InitLibrary /\ [][NextArguments]_vars

\* --------------------------------------------------- calls on the storage
\* The calls of one behaviour on the states and on the data of a key.
MaxStateCalls == 4
MaxDataCalls == 3

beside_storage ==
    <<tree_vars, run_vars, emit, resolved, suspended, filter_vars, extraction,
      enum_call>>

\* The call of the task returns: it is noted with what it returned.
Returns(task, returned) ==
    /\ tasks' = [tasks EXCEPT ![task] = NoCall]
    /\ calls' = Append(calls, [task |-> task, fn |-> tasks[task].fn,
                               key |-> tasks[task].key, arg |-> tasks[task].arg,
                               returned |-> returned])

\* A task calls a method of the storage and comes to get_connection;
\* set_data has serialised its data by then.
CallStorage(task, fn, key, arg, limit) ==
    /\ tasks[task].pc = "idle"
    /\ Len(calls) + Cardinality({t \in Tasks : tasks[t].pc # "idle"}) < limit
    /\ \E plain_json \in
          IF fn = "set_data"
          THEN {Some(text) : text \in
                   to_string([k \in DOMAIN arg[1] |-> to_value(arg[1][k])])}
          ELSE {None} :
          tasks' = [tasks EXCEPT ![task] =
                       [fn |-> fn, key |-> key, arg |-> arg, pc |-> "lock",
                        plain_json |-> plain_json]]
    /\ UNCHANGED <<beside_storage, client, server, calls>>

\* get_connection: self.client.lock().await gives the task the client.
Lock(task) ==
    /\ tasks[task].pc = "lock"
    /\ client = 0
    /\ client' = task
    /\ tasks' = [tasks EXCEPT ![task].pc = "connect"]
    /\ UNCHANGED <<beside_storage, server, calls>>

\* get_connection: get_async_connection().await gives a connection; the
\* guard of the client is dropped at the end of the statement.
Connect(task) ==
    /\ tasks[task].pc = "connect"
    /\ client' = 0
    /\ tasks' = [tasks EXCEPT ![task].pc = "command"]
    /\ UNCHANGED <<beside_storage, server, calls>>

\* get_connection fails and the method returns the error.
ConnectFails(task) ==
    /\ tasks[task].pc = "connect"
    /\ client' = 0
    /\ Returns(task, Failed("Failed to get redis connection"))
    /\ UNCHANGED <<beside_storage, server>>

\* The command of a method that sends one command is answered, and the
\* method returns.
SendCommand(task) ==
    LET call == tasks[task]
        answer ==
            CASE call.fn = "set_state" -> set_state(server, call.key, call.arg[1])
              [] call.fn = "previous_state" -> previous_state(server, call.key)
              [] call.fn = "get_state" -> get_state(server, call.key)
              [] call.fn = "get_states" -> get_states(server, call.key)
              [] call.fn = "remove_states" -> remove_states(server, call.key)
              [] call.fn = "set_data" ->
                    set_data(server, call.key, call.plain_json.value)
              [] call.fn = "get_data" -> get_data(server, call.key)
              [] call.fn = "get_value" ->
                    get_value(server, call.key, call.arg[1])
              [] call.fn = "remove_data" -> remove_data(server, call.key)
    IN  /\ call.pc = "command"
        /\ call.fn # "set_value"
        /\ server' = answer.db
        /\ Returns(task, answer.returned)
        /\ UNCHANGED <<beside_storage, client>>

\* set_value: its GET is answered.
SetValueGet(task) ==
    /\ tasks[task].pc = "command"
    /\ tasks[task].fn = "set_value"
    /\ tasks' = [tasks EXCEPT
                   ![task].pc = "write",
                   ![task].plain_json =
                      GET(server, build(tasks[task].key, "Data"))]
    /\ UNCHANGED <<beside_storage, client, server, calls>>

\* set_value: the data it read, with the value inserted, is serialised and
\* its SET is answered.
SetValueSet(task) ==
    LET call == tasks[task]
    IN  /\ call.pc = "write"
        /\ \E plain_json \in to_string(set_value(call.plain_json,
                                                 call.arg[1], call.arg[2])) :
              server' = SET(server, build(call.key, "Data"), plain_json)
        /\ Returns(task, Returned("()"))
        /\ UNCHANGED <<beside_storage, client>>

\* The server answers a command with an error, which the method returns.
CommandFails(task) ==
    /\ tasks[task].pc \in {"command", "write"}
    /\ Returns(task, Failed("Failed to " \o tasks[task].fn))
    /\ UNCHANGED <<beside_storage, client, server>>

\* One task at a time on the states of a key.
NextStates ==
    \/ \E fn \in {"set_state", "previous_state", "get_state", "get_states",
                 "remove_states"}, key \in StorageKeys :
       \E arg \in Arguments(fn) : CallStorage(1, fn, key, arg, MaxStateCalls)
    \/ \E task \in Tasks : Lock(task)
    \/ \E task \in Tasks : Connect(task)
    \/ \E task \in Tasks : ConnectFails(task)
    \/ \E task \in Tasks : SendCommand(task)
    \/ \E task \in Tasks : CommandFails(task)

SpecStates == InitLibrary /\ [][NextStates]_vars

\* One task at a time on the data of a key.
NextData ==
    \/ \E fn \in {"set_data", "set_value", "get_data", "get_value",
                 "remove_data"}, key \in StorageKeys :
       \E arg \in Arguments(fn) : CallStorage(1, fn, key, arg, MaxDataCalls)
    \/ \E task \in Tasks : Lock(task)
    \/ \E task \in Tasks : Connect(task)
    \/ \E task \in Tasks : ConnectFails(task)
    \/ \E task \in Tasks : SendCommand(task)
    \/ \E task \in Tasks : SetValueGet(task)
    \/ \E task \in Tasks : SetValueSet(task)
    \/ \E task \in Tasks : CommandFails(task)

SpecData == InitLibrary /\ [][NextData]_vars

\* The tasks call set_value at the same time, each with a value key of its
\* own, MaxTasks calls in all.
NextRace ==
    \/ \E task \in Tasks, key \in StorageKeys, value \in Values :
          CallStorage(task, "set_value", key, <<IF task = 1 THEN "x" ELSE "y", value>>,
                      MaxTasks)
    \/ \E task \in Tasks : Lock(task)
    \/ \E task \in Tasks : Connect(task)
    \/ \E task \in Tasks : ConnectFails(task)
    \/ \E task \in Tasks : SetValueGet(task)
    \/ \E task \in Tasks : SetValueSet(task)
    \/ \E task \in Tasks : CommandFails(task)

SpecRace == InitLibrary /\ [][NextRace]_vars

\* ------------------------------------------ comparing and converting enums
\* value == other is evaluated for a value of one of the enums and a &str.
CallEq(v, other) ==
    /\ enum_call = NoEnumCall
    /\ enum_call' = [NoEnumCall EXCEPT !.fn = "eq", !.value = v,
                        !.other = other, !.frames = 1, !.pc = "called"]
    /\ UNCHANGED <<tree_vars, run_vars, emit, resolved, suspended,
                   filter_vars, extraction, storage_vars>>

\* Box::<str>::from(value) or String::from(value) is evaluated.
CallInto(fn, v) ==
    /\ enum_call = NoEnumCall
    /\ enum_call' = [NoEnumCall EXCEPT !.fn = fn, !.value = v,
                        !.frames = 1, !.pc = "called"]
    /\ UNCHANGED <<tree_vars, run_vars, emit, resolved, suspended,
                   filter_vars, extraction, storage_vars>>

\* The body of the innermost call runs: it returns, and so do the calls
\* that wait for it, or it makes a call that takes one more frame.
RunBody ==
    /\ enum_call.pc = "called"
    /\ LET body == Body(enum_call.fn, enum_call.value, enum_call.other)
       IN  IF body.calls = ""
           THEN enum_call' = [enum_call EXCEPT !.pc = "returned", !.frames = 0,
                                               !.returned = body.value]
           ELSE /\ enum_call.frames < MaxFrames
                /\ enum_call' = [enum_call EXCEPT !.fn = body.calls,
                                                  !.frames = @ + 1]
    /\ UNCHANGED <<tree_vars, run_vars, emit, resolved, suspended,
                   filter_vars, extraction, storage_vars>>

\* The body makes a call and the stack has no room for its frame.
StackOverflow ==
    /\ enum_call.pc = "called"
    /\ enum_call.frames = MaxFrames
    /\ Body(enum_call.fn, enum_call.value, enum_call.other).calls # ""
    /\ enum_call' = [enum_call EXCEPT !.pc = "overflowed"]
    /\ UNCHANGED <<tree_vars, run_vars, emit, resolved, suspended,
                   filter_vars, extraction, storage_vars>>

NextEnums ==
    \/ \E v \in EnumValues, other \in Texts : CallEq(v, other)
    \/ \E fn \in {"into_box_str", "into_string"} :
       \E v \in {e \in EnumValues : e.type \in Convertible} : CallInto(fn, v)
    \/ RunBody
    \/ StackOverflow

SpecEnums == InitLibrary /\ [][NextEnums]_vars

NextDetail ==
    \/ \E update_type \in UpdateTypes : Dispatch(update_type)
    \/ CallPropagateUpdateEvent
    \/ CallInsertingOuterMiddleware
    \/ TriggerRecordedObserver
    \/ CallSubRouter
    \/ Return

SpecDetail == InitDetail /\ [][NextDetail]_vars

\* ================================================================= claims
Frames == {stack[i] : i \in 1..Len(stack)}

Subtree(sr, r) == {r} \cup Descendants(sr, r)

Occurrences(chain, m) == Cardinality({i \in 1..Len(chain) : chain[i] = m})

\* The middlewares of chain whose answer was Finish, in chain order.
RECURSIVE FinishedOnes(_, _)
FinishedOnes(chain, answers) ==
    IF answers = <<>> THEN <<>>
    ELSE LET n == Len(answers)
             before == FinishedOnes(chain, SubSeq(answers, 1, n - 1))
         IN  IF answers[n] = "Finish" THEN Append(before, chain[n]) ELSE before

\* C1: once an outer middleware (of a kind observer or of an update observer)
\* of any router has returned Cancel, no handler is invoked and no further
\* router is evaluated, and the call made on the root returns Rejected.
C1_CancelShortCircuitsTree ==
    history.cancelled =>
        /\ history.after_cancel = {}
        /\ result # Pending => Kind(result) = "Rejected"

\* C2: when the update pass of a router returns Handled or Rejected to that
\* router's propagate_event, propagate_event returns that very response and
\* does not go on to the outer middlewares or the trigger of the kind observer.
C2_UpdatePassShortCircuits ==
    [][(/\ Len(stack) >= 2
        /\ Top.pc = "done"
        /\ stack[Len(stack) - 1].pc = "update"
        /\ Kind(Top.ret) \in {"Handled", "Rejected"})
       => (/\ stack' # <<>>
           /\ stack'[Len(stack')].pc = "done"
           /\ stack'[Len(stack')].ret = Top.ret)]_vars

HandledByOwnObserver(f, allowed_below) ==
    /\ f.pc = "done"
    /\ f.ret.tag = "Ok"
    /\ f.ret.request = f.request
    /\ f.ret.propagate_result.kind = "Handled"
    /\ f.ret.propagate_result.response.router = f.router
    /\ f.ret.propagate_result.response.observer = f.update_type
    /\ f.ret.propagate_result.response.entry \in 1..handlers[f.router][f.update_type]
    /\ f.tried = <<>>
    /\ f.below \subseteq allowed_below

\* C4 as stated: if a router's own kind observer returns Handled,
\* propagate_event on it returns Handled with that handler's result and no
\* observer of another router, update or kind, is evaluated during the call.
C4_HandledInvokesNoSubObserver ==
    \A f \in Frames :
        (f.fn = "propagate_event" /\ f.observer_response = "Handled")
            => HandledByOwnObserver(f, {})

\* C4 as amended: if a router's own kind observer returns Handled,
\* propagate_event on it returns Handled with that handler's result and no
\* kind observer of another router is evaluated during the call (update
\* observers of its sub routers are, by the update pass that comes first).
C4_HandledInvokesNoSubKindObserver ==
    \A f \in Frames :
        (f.fn = "propagate_event" /\ f.observer_response = "Handled")
            => HandledByOwnObserver(f, {"update"})

\* C4 witness: the kind observer of a router with sub routers returned
\* Handled after the update pass had evaluated an update observer below it.
C4_Witness ==
    \E f \in Frames :
        /\ f.fn = "propagate_event"
        /\ f.observer_response = "Handled"
        /\ sub_routers[f.router] # <<>>
        /\ f.below = {"update"}

\* C5: propagate_event tries the sub routers only after its kind observer
\* was Unhandled, in inclusion order; every response before the last is
\* Unhandled; a Handled or Rejected response ends the loop and is returned
\* as it is; the sub routers after it get no propagate_event call.
C5_SubRoutersInOrderFirstWins ==
    \A f \in Frames :
        f.fn = "propagate_event" =>
            LET subs == sub_routers[f.router]
                n == Len(f.tried)
                m == Len(f.sub_responses)
            IN  /\ n <= Len(subs)
                /\ f.tried = SubSeq(subs, 1, n)
                /\ n > 0 => f.observer_response = "Unhandled"
                /\ m \in {n - 1, n}
                /\ \A j \in 1..m :
                      f.sub_responses[j] # "Unhandled" =>
                          /\ j = n
                          /\ f.pc = "done"
                /\ (m > 0 /\ f.sub_responses[m] \in {"Handled", "Rejected"}) =>
                      /\ f.ret = f.returned
                      /\ Kind(f.returned) = f.sub_responses[m]
                      /\ \A j \in (n + 1)..Len(subs) :
                            history.propagate_calls[subs[j]] = 0
                /\ \A j \in 1..Len(subs) : history.propagate_calls[subs[j]] <= 1

\* C5 witness: the first of two sub routers returned Handled or Rejected and
\* the parent is about to return it.
C5_Witness ==
    \E f \in Frames :
        /\ f.fn = "propagate_event"
        /\ Len(sub_routers[f.router]) >= 2
        /\ Len(f.tried) = 1
        /\ f.sub_responses # <<>>
        /\ f.sub_responses[1] \in {"Handled", "Rejected"}
        /\ f.pc = "done"

\* C6: once a middleware or a trigger has returned an error, nothing more is
\* evaluated, every pending call returns that error and the call made on the
\* root returns it: no PropagateEventResult is produced.
C6_ErrorAbortsPropagation ==
    history.error # NoError =>
        /\ history.after_error = {}
        /\ stack # <<>> => (Top.pc = "done" /\ Top.ret = Err(history.error))
        /\ stack = <<>> => result = Err(history.error)

\* C6 witness: the call on the root returned an error raised in a sub router.
C6_Witness ==
    /\ result.tag = "Err"
    /\ result.error.router # root
    /\ result.error = history.error

\* C10: in every call the current request is the request the call was made
\* with changed by exactly the middlewares that returned Finish, in chain
\* order; a Cancel is the last answer, returns Rejected with that request and
\* leaves the observer untriggered; the observer is triggered only after
\* every middleware of the chain answered Finish or Skip.
C10_OuterChainRequest ==
    \A f \in Frames :
        LET chain == Chain(f)
            n == Len(f.answers)
        IN  /\ n <= Len(chain)
            /\ f.request = Request(f.arg.marks \o FinishedOnes(chain, f.answers))
            /\ \A j \in 1..n :
                  f.answers[j] = "Cancel" =>
                      /\ j = n
                      /\ f.pc = "done"
                      /\ f.ret = Ok(f.request, Rejected)
                      /\ f.observer_response = ""
            /\ f.observer_response # "" =>
                  /\ n = Len(chain)
                  /\ \A j \in 1..n : f.answers[j] \in {"Finish", "Skip"}

\* C10 witness: an observer was triggered after its first outer middleware
\* returned Skip and its second returned Finish.
C10_Witness ==
    \E f \in Frames :
        /\ f.answers = <<"Skip", "Finish">>
        /\ f.observer_response # ""

\* C7: include_router(router) on self puts self's inner middlewares, in
\* self's order, in front of every observer's inner chain of router and of
\* each of its descendants, each of them exactly once.
C7_IncludeInheritsInnerMiddlewares ==
    [][\A self \in Routers, router \in Routers :
          sub_routers'[self] = Append(sub_routers[self], router) =>
              \A d \in Subtree(sub_routers, router), o \in ObserverNames :
                  /\ inner_middlewares'[d][o] =
                        inner_middlewares[self][o] \o inner_middlewares[d][o]
                  /\ \A m \in Range(inner_middlewares[self][o]) :
                        Occurrences(inner_middlewares'[d][o], m) = 1]_vars

\* C7 witness: a router with an inner middleware has included a router that
\* had one of its own and a sub router; both hold the parent's in front.
C7_Witness ==
    \E self \in Routers, o \in ObserverNames :
        \E router \in Range(sub_routers[self]) :
            \E d \in Range(sub_routers[router]) :
                LET mine == inner_middlewares[self][o]
                IN  /\ mine # <<>>
                    /\ Len(inner_middlewares[router][o]) > Len(mine)
                    /\ SubSeq(inner_middlewares[router][o], 1, Len(mine)) = mine
                    /\ SubSeq(inner_middlewares[d][o], 1, Len(mine)) = mine

\* C8: a step that changes the inner middlewares of a router without
\* including anything (a registration) leaves the inner chains of all the
\* routers below it unchanged.
C8_LaterRegistrationNotInherited ==
    [][\A p \in Routers :
          (inner_middlewares'[p] # inner_middlewares[p] /\ sub_routers' = sub_routers)
              => \A d \in Descendants(sub_routers, p) :
                    inner_middlewares'[d] = inner_middlewares[d]]_vars

\* C8 witness: a router holds an inner middleware of its own that its sub
\* router lacks: it was registered after the inclusion.
C8_Witness ==
    \E p \in Routers, o \in ObserverNames :
        \E c \in Range(sub_routers[p]) :
            \E m \in Range(inner_middlewares[p][o]) :
                /\ m[1] = p
                /\ m \notin Range(inner_middlewares[c][o])

\* C9 as stated: after to_service_provider(config) every router of the tree
\* holds the config's outer middlewares for K on its K observer.
C9_ConfigReachesEveryRouter ==
    phase = "serve" =>
        \A r \in Subtree(sub_routers, root), o \in ObserverNames :
            \A m \in Range(config[o]) : m \in Range(outer_middlewares[r][o])

\* C9 as amended: after to_service_provider(config) the root holds the
\* config's outer middlewares for K on its K observer, and no descendant
\* holds any of them.
C9_ConfigReachesRootOnly ==
    phase = "serve" =>
        \A o \in ObserverNames :
            \A m \in Range(config[o]) :
                /\ m \in Range(outer_middlewares[root][o])
                /\ \A d \in Descendants(sub_routers, root) :
                      m \notin Range(outer_middlewares[d][o])

\* C9 witness: a tree with a sub router was converted with a config that
\* carries an outer middleware.
C9_Witness ==
    /\ phase = "serve"
    /\ sub_routers[root] # <<>>
    /\ \E o \in ObserverNames : config[o] # <<>>

\* C11: a handler of a kind observer finds in the Context of the request it
\* is given the value that an outer middleware of an update observer inserted
\* last, during the update pass that came before it.
C11_HandlerReadsInsertedValue ==
    (last_trigger.observer \in UpdateTypes /\ last_trigger.read # NotRead)
        => last_trigger.read = history.inserted

\* C11 witness: a handler of the message observer of a sub router has just
\* read the value that an update middleware of the root inserted.
C11_Witness ==
    /\ last_trigger.observer = "message"
    /\ last_trigger.router # root
    /\ last_trigger.read \notin {NotRead, NoValue}
    /\ last_trigger.read[1] = root
    /\ last_trigger.read[2] = "update"

\* The entries before k returned Skip from their handlers and entry k
\* returned Finish or Cancel from its handler.
SkipsThenEnds(outcomes, k) ==
    /\ k \in 1..Len(outcomes)
    /\ \A j \in 1..(k - 1) : outcomes[j] = "Skip"
    /\ outcomes[k] \in {"Finish", "Cancel"}

\* C12: when the handlers of entries 1..k-1 return Skip and the handler of
\* entry k returns Finish or Cancel, the trigger invokes exactly the handlers
\* 1..k in that order, its result is Handled with entry k's return, and the
\* router's call returns that Handled result with its request.
C12_SkipsThenFirstEndingEntryWins ==
    \A k \in 1..MaxHandlers :
        (last_trigger # NoTrigger /\ SkipsThenEnds(last_trigger.outcomes, k)) =>
            /\ last_trigger.invoked = [j \in 1..k |-> j]
            /\ last_trigger.tag = "Ok"
            /\ last_trigger.propagate_result =
                  Handled([router |-> last_trigger.router,
                           observer |-> last_trigger.observer,
                           entry |-> k,
                           handler_result |-> last_trigger.outcomes[k]])
            /\ Top.router = last_trigger.router
            /\ Top.pc = "done"
            /\ Top.ret = Ok(Top.request, last_trigger.propagate_result)

\* C12 witness: the first callback_query handler returned Skip, the second
\* Finish, and propagate_event is about to return.
C12_Witness ==
    /\ last_trigger.observer = "callback_query"
    /\ last_trigger.outcomes = <<"Skip", "Finish">>
    /\ Top.fn = "propagate_event"
    /\ Top.pc = "done"

\* C13: when a filter of every entry rejects the request, the trigger
\* invokes no handler and is Unhandled, so that the router goes on to its sub
\* routers (returning Unhandled when it has none); entries rejected by a
\* filter in front of an entry whose handler runs do not keep it from running.
C13_FilterRejectionMovesOn ==
    last_trigger # NoTrigger =>
        /\ (\A j \in 1..Len(last_trigger.outcomes) :
                last_trigger.outcomes[j] = "FilterReject") =>
              /\ last_trigger.invoked = <<>>
              /\ last_trigger.tag = "Ok"
              /\ last_trigger.propagate_result = Unhandled
              /\ Top.router = last_trigger.router
              /\ IF sub_routers[Top.router] = <<>>
                 THEN Top.pc = "done" /\ Top.ret = Ok(Top.request, Unhandled)
                 ELSE Top.pc = "sub_routers" /\ Top.idx = 1
        /\ \A k \in 1..Len(last_trigger.outcomes) :
              (/\ \A j \in 1..(k - 1) : last_trigger.outcomes[j] = "FilterReject"
               /\ last_trigger.outcomes[k] \in HandlerOutcomes) =>
                  /\ last_trigger.invoked # <<>>
                  /\ last_trigger.invoked[1] = k

\* C13 witness: every entry of a message observer with entries was rejected
\* by a filter, and the router has a sub router to go on with.
C13_Witness ==
    /\ last_trigger.observer = "message"
    /\ last_trigger.outcomes # <<>>
    /\ \A j \in 1..Len(last_trigger.outcomes) :
          last_trigger.outcomes[j] = "FilterReject"
    /\ sub_routers[last_trigger.router] # <<>>

\* Every sub router of f's router was called and returned Unhandled.
EverySubRouterUnhandled(f) ==
    /\ f.tried = sub_routers[f.router]
    /\ Len(f.sub_responses) = Len(f.tried)
    /\ \A j \in 1..Len(f.sub_responses) : f.sub_responses[j] = "Unhandled"

\* No router of the tree below and including r has a handler on observer o.
NoHandlerBelow(r, o) ==
    \A d \in Subtree(sub_routers, r) : handlers[d][o] = 0

RECURSIVE PreOrder(_, _)
RECURSIVE PreOrderEach(_, _, _)
PreOrder(sr, r) == <<r>> \o PreOrderEach(sr, sr[r], 1)
PreOrderEach(sr, routers, i) ==
    IF i > Len(routers) THEN <<>>
    ELSE PreOrder(sr, routers[i]) \o PreOrderEach(sr, routers, i + 1)

\* C15: an emit_startup / emit_shutdown call that returns Ok has triggered
\* the observer of the router it was made on and then that of every router
\* below it at any depth, in depth-first pre-order.
C15_EmitReachesEveryDescendant ==
    emit.result = "Ok" => emit.triggered = PreOrder(sub_routers, emit.router)

\* C16: once an observer has returned an error during emit_startup /
\* emit_shutdown, the call has returned that error, the observer that
\* returned it is the last one triggered, and no second error can arise.
C16_EmitStopsAtFirstError ==
    emit.errors # <<>> =>
        /\ emit.result = "Err"
        /\ emit.error = emit.errors[1]
        /\ Len(emit.errors) = 1
        /\ emit.triggered[Len(emit.triggered)] = emit.errors[1]
        /\ emit.triggered =
              SubSeq(emitted_observers(sub_routers, emit.router), 1,
                     Len(emit.triggered))

\* C16 witness: emit_shutdown returned the error of the root's observer while
\* the observers of its sub routers were still to come.
C16_Witness ==
    /\ emit.event = "shutdown"
    /\ emit.result = "Err"
    /\ emit.triggered = <<root>>
    /\ sub_routers[root] # <<>>

\* The kinds for which r or a router below it has a handler entry.
UsedKinds(r) ==
    {o \in UpdateTypes : \E d \in Subtree(sub_routers, r) : handlers[d][o] > 0}

\* C17: a resolve_used_update_types call that returns, returns exactly the
\* kinds for which the router or a router below it at any depth has at least
\* one handler entry, each of them once.
C17_ResolveReturnsUsedKinds ==
    [][\A r \in Routers :
          ResolveUsedUpdateTypes(r) /\ ~resolved'.panicked =>
              /\ Range(resolved'.result) = UsedKinds(r)
              /\ Len(resolved'.result) = Cardinality(UsedKinds(r))]_vars

\* C17 witness: the call on a router that has a message handler, as has a
\* router two levels below it, and no callback_query handler anywhere,
\* returned message once.
C17_Witness ==
    /\ resolved.router # 0
    /\ ~resolved.with_skip
    /\ ~resolved.panicked
    /\ handlers[resolved.router]["message"] > 0
    /\ \E d \in Routers :
          /\ sub_routers[resolved.router] # <<>>
          /\ sub_routers[sub_routers[resolved.router][1]] = <<d>>
          /\ handlers[d]["message"] > 0
    /\ resolved.result = <<"message">>

\* C18: a resolve_used_update_types_with_skip(S) call that returns, returns
\* as a set what resolve_used_update_types returns, minus S.
C18_ResolveWithSkipIsDifference ==
    [][\A r \in Routers, skip_updates \in SUBSET UpdateTypes :
          ResolveUsedUpdateTypesWithSkip(r, skip_updates) /\ ~resolved'.panicked =>
              Range(resolved'.result) =
                 resolve_used_update_types(sub_routers, handlers, r).used_update_types
                    \ skip_updates]_vars

\* C18 witness: a router with a message handler and a sub router with a
\* callback_query handler; with message skipped the call returned
\* callback_query.
C18_Witness ==
    /\ resolved.router # 0
    /\ resolved.with_skip
    /\ resolved.skip_updates = {"message"}
    /\ handlers[resolved.router]["message"] > 0
    /\ \E d \in Range(sub_routers[resolved.router]) :
          handlers[d]["callback_query"] > 0
    /\ resolved.result = <<"callback_query">>

\* The outer chain of a call's kind observer was cut short: a middleware
\* returned Cancel or an error, or the update pass returned an error.
CutShort(f) ==
    /\ f.pc = "done"
    /\ \/ f.answers # <<>> /\ f.answers[Len(f.answers)] \in {"Cancel", "Err"}
       \/ f.answers = <<>> /\ f.ret.tag = "Err"

\* C19 as stated: a propagate_event call that has returned has called every
\* outer middleware of its router's kind observer exactly once.
C19_EveryOuterMiddlewareExactlyOnce ==
    \A f \in Frames :
        f.fn = "propagate_event" /\ f.pc = "done" => f.called = Chain(f)

\* C19: during one propagate_event call on the root every router is reached
\* at most once, and the outer middlewares called for a reached router are
\* those of its own kind observer in chain order, each at most once, and
\* each exactly once unless the chain was cut short by a Cancel or an error;
\* none is a middleware registered on another router.
C19_OuterMiddlewaresOncePerRouter ==
    /\ \A r \in Routers : history.propagate_calls[r] <= 1
    /\ \A f \in Frames :
          f.fn = "propagate_event" =>
              /\ Len(f.called) <= Len(Chain(f))
              /\ f.called = SubSeq(Chain(f), 1, Len(f.called))
              /\ \A m \in Range(f.called) :
                    /\ Occurrences(f.called, m) = 1
                    /\ m[1] \in {0, f.router}
              /\ f.pc \in {"trigger", "sub_routers"} => f.called = Chain(f)
              /\ f.pc = "done" /\ ~CutShort(f) => f.called = Chain(f)

\* C19 witness: propagation stands in a sub router whose kind observer has
\* been triggered after both of its outer middlewares were called, below a
\* root whose kind observer has an outer middleware of its own.
C19_Witness ==
    /\ Len(stack) = 2
    /\ stack[1].fn = "propagate_event"
    /\ stack[2].fn = "propagate_event"
    /\ stack[1].called # <<>>
    /\ \E m \in Range(stack[1].called) : m[1] = stack[1].router
    /\ Len(stack[2].called) = 2
    /\ stack[2].called = Chain(stack[2])
    /\ stack[2].observer_response # ""

\* C20: while a tree is built every outer chain holds only what was
\* registered on its own observer, and an include_router step leaves every
\* outer chain as it was: the outer middlewares of the including router
\* reach neither the included router nor a router below it.
C20_IncludeCopiesNoOuterMiddleware ==
    /\ [](phase = "build" =>
             \A r \in Routers, o \in ObserverNames :
                 \A m \in Range(outer_middlewares[r][o]) : m[1] = r)
    /\ [][\A self \in Routers, router \in Routers :
             sub_routers'[self] = Append(sub_routers[self], router) =>
                 outer_middlewares' = outer_middlewares]_vars

\* C20 witness: a router with two outer middlewares on its message observer
\* has included a router that had included another; every outer chain of
\* these two is empty.
C20_Witness ==
    /\ phase = "build"
    /\ \E self \in Routers :
          /\ Len(outer_middlewares[self]["message"]) = 2
          /\ Len(sub_routers[self]) = 1
          /\ Len(sub_routers[sub_routers[self][1]]) = 1
          /\ \A d \in Descendants(sub_routers, self), o \in ObserverNames :
                outer_middlewares[d][o] = <<>>

\* A step that switches between the two propagations, changing neither.
Switched ==
    /\ suspended'.stack = stack
    /\ suspended'.result = result
    /\ suspended'.history = history
    /\ stack' = suspended.stack
    /\ result' = suspended.result
    /\ history' = suspended.history
    /\ context' = context

\* C21: with two propagations on one tree, each with its own Context, a
\* Context holds only what the middlewares of its own propagation inserted,
\* and no step changes the tree; a step of one propagation changes neither
\* the call state of the other nor the other's Context, so each runs as it
\* runs alone.
C21_ConcurrentPropagationsDoNotInterfere ==
    /\ [](/\ context[Running] = history.inserted
          /\ context[suspended.context] = suspended.history.inserted)
    /\ [][/\ tree_vars' = tree_vars
          /\ \/ Switched
             \/ /\ suspended' = suspended
                /\ context'[suspended.context] = context[suspended.context]]_vars

\* C21 witness: both propagations are under way; the running one has
\* inserted a value into its Context, the other one has passed its update
\* pass and stands before its kind observer with its Context still empty.
C21_Witness ==
    /\ stack # <<>>
    /\ suspended.stack # <<>>
    /\ context[Running] # NoValue
    /\ context[suspended.context] = NoValue
    /\ suspended.stack[Len(suspended.stack)].fn = "propagate_event"
    /\ suspended.stack[Len(suspended.stack)].pc = "trigger"

\* A name, a mention or an argument: no space and no mention sign in it.
PlainWord(s) == ~contains(s, " ") /\ ~contains(s, "@")

\* The words joined with one space in front of each.
RECURSIVE SpaceBefore(_)
SpaceBefore(words) ==
    IF words = <<>> THEN <<>>
    ELSE <<" ">> \o Head(words) \o SpaceBefore(Tail(words))

\* C22: extract on <prefix character><name>, then possibly @ and a mention,
\* then possibly words with a space before each, returns the character as
\* prefix, the name as command, the mention when one follows the @ (None
\* otherwise) and the words as args.
C22_ExtractSplitsCommandText ==
    filter_call.fn = "extract" =>
        LET text == filter_call.text.value
            got == filter_call.extracted
        IN  \A n \in 2..Len(text), m \in 2..Len(text) :
              LET name == SubSeq(text, 2, n)
                  at == SubSeq(text, n + 1, m)
                  rest == SubSeq(text, m + 1, Len(text))
              IN  /\ n <= m
                  /\ text[1] # " "
                  /\ PlainWord(name)
                  /\ at # <<>> => at[1] = "@" /\ PlainWord(Tail(at))
                  /\ rest # <<>> =>
                        /\ rest[1] = " "
                        /\ rest[Len(rest)] # " "
                        /\ \A i \in 1..(Len(rest) - 1) :
                              ~(rest[i] = " " /\ rest[i + 1] = " ")
                  => /\ ~got.panicked
                     /\ got.object.prefix = <<text[1]>>
                     /\ got.object.command = name
                     /\ got.object.mention =
                           IF Len(at) > 1 THEN Some(Tail(at)) ELSE None
                     /\ SpaceBefore(got.object.args) = rest
                     /\ \A i \in 1..Len(got.object.args) :
                           /\ got.object.args[i] # <<>>
                           /\ ~contains(got.object.args[i], " ")

\* The same characters, whatever the case of the letters.
SameIgnoringCase(s, t) ==
    /\ Len(s) = Len(t)
    /\ \A i \in 1..Len(s) : s[i] = t[i] \/ {s[i], t[i]} = {"a", "A"}

\* The pattern as it was given to the filter accepts the name.
Accepts(pattern, name, ignore_case) ==
    IF pattern.kind = "Regex"
    THEN \E i \in 0..(Len(name) - Len(pattern.text)) :
            LET part == SubSeq(name, i + 1, i + Len(pattern.text))
            IN  IF ignore_case THEN SameIgnoringCase(part, pattern.text)
                ELSE part = pattern.text
    ELSE IF ignore_case THEN SameIgnoringCase(name, pattern.text)
         ELSE name = pattern.text

\* C23: validate_command returns Ok exactly when a pattern given to the
\* filter accepts the name, a text pattern by equality, with ignore_case by
\* equality whatever the case of name and pattern; it returns
\* InvalidCommand otherwise.
C23_ValidateCommandMatchesPatterns ==
    filter_call.fn = "validate_command" =>
        LET given == command_filter.given
            accepted ==
                \E i \in 1..Len(given) :
                    Accepts(given[i], filter_call.text.value,
                            command_filter.ignore_case)
        IN  /\ filter_call.returned \in {"Ok", "InvalidCommand"}
            /\ filter_call.returned = "Ok" <=> accepted

\* C23 witness: with ignore_case the pattern "Aa" given second has
\* accepted the name "aA".
C23_Witness ==
    /\ filter_call.fn = "validate_command"
    /\ command_filter.ignore_case
    /\ command_filter.given = <<Text(<<"a">>), Text(<<"A", "a">>)>>
    /\ filter_call.text.value = <<"a", "A">>
    /\ filter_call.returned = "Ok"

\* C24: check returns true or false for every update, whatever the text
\* or caption of its message.
C24_CheckAlwaysReturnsBoolean ==
    filter_call.fn = "check" => filter_call.returned \in {"true", "false"}

\* C25: check sends get_me at most once, and only when the text's prefix
\* and command name have validated, ignore_mention is false and the text
\* carries a mention; when get_me then fails, check returns false.
C25_SessionErrorYieldsFalse ==
    filter_call.fn = "check" =>
        /\ filter_call.get_me <= 1
        /\ filter_call.get_me = 1 =>
              /\ filter_call.message
              /\ filter_call.text.is_some
              /\ LET command == extract(filter_call.text.value)
                 IN  /\ ~command.panicked
                     /\ validate_prefix(command_filter, command.object) = "Ok"
                     /\ validate_command(command_filter, command.object) = "Ok"
                     /\ command.object.mention.is_some
              /\ ~command_filter.ignore_mention
        /\ filter_call.get_me = 1 /\ filter_call.me = SessionError =>
              filter_call.returned = "false"

\* C25 witness: get_me was sent for a text with a mention and failed;
\* check returned false.
C25_Witness ==
    /\ filter_call.fn = "check"
    /\ filter_call.text = Some(<<"/", "a", "@", "a">>)
    /\ filter_call.get_me = 1
    /\ filter_call.me = SessionError
    /\ filter_call.returned = "false"

\* C26: after check returned true the Context holds the parsed command
\* under "command" and is otherwise as before; after any other outcome it
\* is as before.
C26_CommandStoredExactlyOnTrue ==
    filter_call.fn = "check" =>
        IF filter_call.returned = "true"
        THEN /\ filter_call.text.is_some
             /\ ~extract(filter_call.text.value).panicked
             /\ get(filter_context, "command") =
                   extract(filter_call.text.value).object
             /\ \A key \in Keys \ {"command"} :
                   get(filter_context, key) = get(filter_call.before, key)
        ELSE filter_context = filter_call.before

\* C26 witness: check returned true for "/a a" and the Context holds the
\* command a with the argument a.
C26_Witness ==
    /\ filter_call.fn = "check"
    /\ filter_call.returned = "true"
    /\ get(filter_call.before, "command") = NoValue
    /\ get(filter_context, "command") =
          CommandObject(<<"a">>, <<"/">>, None, <<<<"a">>>>)

\* C27: extracting a payload type (Message, CallbackQuery, ChosenInlineResult,
\* ShippingQuery, PreCheckoutQuery, PollAnswer, ChatMemberUpdated,
\* ChatJoinRequest, InlineQuery, Poll) from an update that does not carry it
\* returns an error and does not panic; extracting Bot, Update or Context
\* returns Ok.
C27_MissingPayloadIsAnError ==
    /\ extraction.type \in PayloadTypes /\ extraction.type \notin extraction.update
          => extraction.outcome.returned = "Err"
    /\ extraction.type \in InfallibleTypes
          => extraction.outcome.returned = "Ok"

\* The states of a key as a stack, after the first n calls that returned:
\* set_state pushes, previous_state pops, remove_states empties, and a call
\* that returned an error changes nothing.
RECURSIVE StackAfter(_, _)
StackAfter(key, n) ==
    IF n = 0 THEN <<>>
    ELSE LET call == calls[n]
             before == StackAfter(key, n - 1)
         IN  IF call.key # key \/ ~call.returned.ok THEN before
             ELSE CASE call.fn = "set_state" -> Append(before, call.arg[1])
                    [] call.fn = "previous_state" ->
                          IF before = <<>> THEN <<>>
                          ELSE SubSeq(before, 1, Len(before) - 1)
                    [] call.fn = "remove_states" -> <<>>
                    [] OTHER -> before

\* C28: for one storage key, after any sequence of set_state, previous_state
\* and remove_states the states behave as a stack: get_state returns the
\* most recently set state not removed by previous_state (None when there is
\* none or after remove_states), previous_state makes the state set before
\* the current one current again, and get_states returns the whole history,
\* oldest first (empty when none).
C28_StatesBehaveAsAStack ==
    \A n \in DOMAIN calls :
        LET held == StackAfter(calls[n].key, n - 1)
        IN  calls[n].returned.ok =>
               /\ calls[n].fn = "get_state" =>
                     calls[n].returned.value =
                        IF held = <<>> THEN None ELSE Some(held[Len(held)])
               /\ calls[n].fn = "get_states" => calls[n].returned.value = held

\* C28 witness: a and b were set, previous_state was called, and get_state
\* returned a.
C28_Witness ==
    /\ Len(calls) = 4
    /\ \A n \in 1..4 : calls[n].returned.ok
    /\ <<calls[1].fn, calls[2].fn, calls[3].fn, calls[4].fn>> =
          <<"set_state", "set_state", "previous_state", "get_state">>
    /\ calls[1].arg = <<"a">> /\ calls[2].arg = <<"b">>
    /\ calls[4].returned.value = Some("a")

\* C29: when two set_value calls on the same storage key with different
\* value keys, made by two tasks at the same time, both succeed, the stored
\* data afterwards contains both values.
C29_ConcurrentSetValueKeepsBoth ==
    \A m, n \in DOMAIN calls :
        /\ \A task \in Tasks : tasks[task].pc = "idle"
        /\ calls[m].task # calls[n].task
        /\ calls[m].key = calls[n].key
        /\ calls[m].arg[1] # calls[n].arg[1]
        /\ calls[m].returned.ok /\ calls[n].returned.ok
        => LET data == get_data(server, calls[m].key).returned.value
           IN  /\ calls[m].arg[1] \in DOMAIN data
               /\ data[calls[m].arg[1]] = calls[m].arg[2]

\* The data of a key as a map, after the first n calls that returned:
\* set_data replaces it, set_value puts one value into it, remove_data
\* removes it, and a call that returned an error changes nothing.
RECURSIVE DataAfter(_, _)
DataAfter(key, n) ==
    IF n = 0 THEN None
    ELSE LET call == calls[n]
             before == DataAfter(key, n - 1)
             map == IF before.is_some THEN before.value ELSE <<>>
         IN  IF call.key # key \/ ~call.returned.ok THEN before
             ELSE CASE call.fn = "set_data" -> Some(call.arg[1])
                    [] call.fn = "set_value" ->
                          Some([k \in DOMAIN map \cup {call.arg[1]} |->
                                   IF k = call.arg[1] THEN call.arg[2]
                                   ELSE map[k]])
                    [] call.fn = "remove_data" -> None
                    [] OTHER -> before

\* C30: get_data after set_data(key, d) returns d (all previous data is
\* replaced, an empty d clears it); get_data on a key without data returns
\* an empty map; get_value on an absent key or value key returns None; a
\* successful set_value(key, k, v) makes get_value(key, k) return v and
\* leaves every other value key of the storage key as it was.
C30_DataIsAMapPerKey ==
    \A n \in DOMAIN calls :
        LET kept == DataAfter(calls[n].key, n - 1)
        IN  calls[n].returned.ok =>
               /\ calls[n].fn = "get_data" =>
                     calls[n].returned.value =
                        IF kept.is_some THEN kept.value ELSE <<>>
               /\ calls[n].fn = "get_value" =>
                     calls[n].returned.value =
                        IF kept.is_some /\ calls[n].arg[1] \in DOMAIN kept.value
                        THEN Some(kept.value[calls[n].arg[1]])
                        ELSE None

\* C30 witness: after set_data with x = 1 and set_value of y = 2, get_data
\* returned both.
C30_Witness ==
    /\ Len(calls) = 3
    /\ \A n \in 1..3 : calls[n].returned.ok
    /\ <<calls[1].fn, calls[2].fn, calls[3].fn>> =
          <<"set_data", "set_value", "get_data">>
    /\ calls[2].arg = <<"y", 2>>
    /\ DOMAIN calls[1].arg[1] = {"x"}
    /\ calls[3].returned.value = [k \in {"x", "y"} |-> IF k = "x" THEN 1 ELSE 2]

\* C31: during one propagate_event call made on the root of a router tree
\* of any depth, the update observer of each router (its outer middleware
\* chain and its trigger, that is one propagate_update_event call on the
\* router) is run at most once.
C31_UpdateObserverRunsAtMostOnce ==
    \A r \in Routers : history.update_calls[r] <= 1

\* C32: when an outer middleware of the update observer returns Finish with
\* a replaced Request, that replaced Request is the one passed to the kind
\* observer's outer middlewares and handlers in the same propagate_event
\* call: the step that returns from the update pass to propagate_event leaves
\* propagate_event going on with the request the update pass ended with.
C32_ReplacedRequestReachesKindObserver ==
    [][(/\ Len(stack) >= 2
        /\ Top.pc = "done"
        /\ Top.fn = "propagate_update_event"
        /\ stack[Len(stack) - 1].pc = "update"
        /\ Top.ret.tag = "Ok"
        /\ "Finish" \in Range(Top.answers)
        /\ "Cancel" \notin Range(Top.answers))
       => /\ Len(stack') = Len(stack) - 1
          /\ stack'[Len(stack')].fn = "propagate_event"
          /\ stack'[Len(stack')].request = Top.request]_vars

\* C33: resolve_used_update_types returns normally for every router tree,
\* including one where a handler entry is registered on the update observer
\* of some router: no call panics, and the Vec a call returns holds update
\* kinds only.
C33_ResolveAlwaysReturns ==
    /\ ~resolved.panicked
    /\ Range(resolved.result) \subseteq UpdateTypes

\* C34: after to_service_provider(config) each observer of the root router
\* has as its outer middleware chain the config's outer middlewares for that
\* kind, in the order they were added to the config, followed by the outer
\* middlewares registered locally on that observer in their registration
\* order (so on propagation, which walks the chain in order, the config's
\* middlewares run before the local ones).
C34_ConfigBeforeLocalOnRoot ==
    /\ [](phase = "serve" =>
             \A o \in ObserverNames :
                LET chain == outer_middlewares[root][o]
                IN  /\ Len(chain) >= Len(config[o])
                    /\ chain = config[o] \o
                          Ids(root, o, "outer", Len(chain) - Len(config[o])))
    /\ [][phase = "build" /\ phase' = "serve" =>
             \A o \in ObserverNames :
                outer_middlewares'[root'][o] =
                   config[o] \o outer_middlewares[root'][o]]_vars

\* C34 witness: a served root whose message chain is one middleware of the
\* config followed by one registered on the root.
C34_Witness ==
    /\ phase = "serve"
    /\ Len(config["message"]) = 1
    /\ outer_middlewares[root]["message"] =
          <<config["message"][1], MiddlewareId(root, "message", "outer", 1)>>

\* C35: for every value v of the string-named enums (MenuButtonType,
\* MessageEntityType, StickerFormat, InlineQueryResultType) and every string
\* s, the comparison v == s terminates (it does not overflow the stack) and
\* is true exactly when v.as_str() equals s.
C35_ComparisonWithStrTerminates ==
    enum_call.fn = "eq" =>
        /\ enum_call.pc # "overflowed"
        /\ enum_call.pc = "returned" =>
              enum_call.returned =
                 (EnumTypes[enum_call.value.type][enum_call.value.variant]
                     = enum_call.other)

\* C36: converting any MenuButtonType or MessageEntityType value into
\* Box<str> terminates (it does not overflow the stack) and yields the same
\* text as as_str() and as the conversion into String.
C36_IntoBoxStrTerminates ==
    enum_call.fn = "into_box_str" =>
        /\ enum_call.pc # "overflowed"
        /\ enum_call.pc = "returned" =>
              LET v == enum_call.value
              IN  /\ enum_call.returned.text = EnumTypes[v.type][v.variant]
                  /\ enum_call.returned.text =
                        Body("into_string", v, "").value.text

====
